---- MODULE Spec2Model ----
(***************************************************************************)
(* Resolver server (src/src/resolver_server.rs) and reconnecting client    *)
(* (src/src/resolver.rs) of netidx.                                        *)
(*                                                                         *)
(* Spec        the server: accept loop, sessions (handle_client), the      *)
(*             client registry, the path store and the scavenger, each     *)
(*             lock section of the code being one step.                    *)
(* SpecLock    the server without its scavenger, the locked section of a   *)
(*             batch taken one request at a time under the context lock.   *)
(* SpecClient  the client's connection task (connection, connect) against  *)
(*             the server, with the timers of both.                        *)
(***************************************************************************)
EXTENDS Integers, Sequences, FiniteSets, TLC

\* ------------------------------------------------------------------ bounds
MaxSessions == 2
MaxBatch == 2
MaxClock == 10
MaxAge == 610
MaxCalls == 3
MaxStalls == 1
MaxTicks == 2
MaxMax == 2
MaxItems == 3
MaxPolls == 6
MaxFails == 3

\* ------------------------------------------------------- program constants
ScavengerPeriod == 10
ReadOnlyTTL == 120
MaxTTL == 3600
BatchMax == 10000
TTL == 600
LINGER == 10

Sessions == 1..MaxSessions
\* write_addr values a ReadWrite hello may claim (publisher endpoints)
Addrs == {1, 2}
\* the peer socket address of session s (never a publisher endpoint)
PeerAddr(s) == 100 + s

\* ------------------------------------------------------------------- paths
\* A path is its sequence of characters.
ROOT == <<"/">>
PA == <<"/", "a">>
PB == <<"/", "b">>
REL == <<"a", "/", "b">>
AbsPaths == {PA, PB}
AllPaths == AbsPaths \cup {REL}

CharCode(c) == CASE c = "/" -> 47 [] c = "a" -> 97 [] c = "b" -> 98

IsAbsolute(p) == Len(p) > 0 /\ p[1] = "/"

RECURSIVE LexLess(_, _)
LexLess(p, q) ==
    IF q = <<>> THEN FALSE
    ELSE IF p = <<>> THEN TRUE
    ELSE IF CharCode(Head(p)) # CharCode(Head(q))
         THEN CharCode(Head(p)) < CharCode(Head(q))
         ELSE LexLess(Tail(p), Tail(q))

RECURSIVE InsertSorted(_, _)
InsertSorted(p, s) ==
    IF s = <<>> THEN <<p>>
    ELSE IF LexLess(Head(s), p) THEN <<Head(s)>> \o InsertSorted(p, Tail(s))
    ELSE <<p>> \o s

\* Vec::sort_unstable on a list of paths
RECURSIVE SortPaths(_)
SortPaths(ps) ==
    IF ps = <<>> THEN <<>> ELSE InsertSorted(Head(ps), SortPaths(Tail(ps)))

Range(s) == {s[i] : i \in 1..Len(s)}
InSeq(s, x) == \E i \in 1..Len(s) : s[i] = x
SeqRemove(s, x) == SelectSeq(s, LAMBDA y : y # x)
RECURSIVE Reverse(_)
Reverse(s) == IF s = <<>> THEN <<>> ELSE Append(Reverse(Tail(s)), Head(s))

\* ---------------------------------------------------------------- messages
Req(op, ps) == [op |-> op, paths |-> ps]
\* handle_client: only the Publish arm sets batch_needs_write_lock
IsWrite_PublishOnly(m) == m.op = "Publish"

IsWrite(m) == m.op \in {"Publish", "Unpublish"}

Resolved(as) == [tag |-> "Resolved", addrs |-> as, paths |-> <<>>, msg |-> ""]
Listed(ps) == [tag |-> "List", addrs |-> <<>>, paths |-> ps, msg |-> ""]
Published == [tag |-> "Published", addrs |-> <<>>, paths |-> <<>>, msg |-> ""]
Unpublished == [tag |-> "Unpublished", addrs |-> <<>>, paths |-> <<>>, msg |-> ""]
Error(s) == [tag |-> "Error", addrs |-> <<>>, paths |-> <<>>, msg |-> s]
Unreachable ==
    [tag |-> "unreachable", addrs |-> <<>>, paths |-> <<>>,
     msg |-> "write lock required"]

HelloRO == [kind |-> "ReadOnly", ttl |-> 0, write_addr |-> 0]
HelloRW(ttl, a) == [kind |-> "ReadWrite", ttl |-> ttl, write_addr |-> a]
\* no first message yet, and a first message that is missing or does not decode
NoHello == [kind |-> "none", ttl |-> 0, write_addr |-> 0]
Missing == [kind |-> "missing", ttl |-> 0, write_addr |-> 0]

\* ------------------------------------------------- inputs the model draws
\* a ttl below the valid range, one above it, and a valid one that a record
\* idle for one scavenger period outlives
HelloTTLs == {0, ScavengerPeriod \div 2, MaxTTL + 1}
Hellos == {HelloRO} \cup {HelloRW(t, a) : t \in HelloTTLs, a \in Addrs}
Requests ==
    { Req("Resolve", <<PA>>), Req("List", <<ROOT>>),
      Req("Publish", <<PB, PA>>), Req("Unpublish", <<PA>>) }

\* ------------------------------------------------------------------- store
\* resolver_store::Store: path -> endpoints in insertion order, no duplicates
StoreNew == [p \in AllPaths |-> <<>>]

StoreApply(st, p, action, addr) ==
    IF action = "Publish"
    THEN IF InSeq(st[p], addr) THEN st ELSE [st EXCEPT ![p] = Append(@, addr)]
    ELSE [st EXCEPT ![p] = SeqRemove(@, addr)]

RECURSIVE StoreChange(_, _, _, _)
StoreChange(st, ps, action, addr) ==
    IF ps = <<>> THEN st
    ELSE StoreChange(StoreApply(st, Head(ps), action, addr), Tail(ps), action, addr)

StoreResolve(st, p) == st[p]

IsUnder(prefix, p) ==
    /\ Len(p) > Len(prefix)
    /\ SubSeq(p, 1, Len(prefix)) = prefix
    /\ (prefix[Len(prefix)] = "/" \/ p[Len(prefix) + 1] = "/")

RECURSIVE SetToSortedSeq(_)
SetToSortedSeq(S) ==
    IF S = {} THEN <<>>
    ELSE LET p == CHOOSE x \in S : \A y \in S \ {x} : LexLess(x, y)
         IN <<p>> \o SetToSortedSeq(S \ {p})

StoreList(st, prefix) ==
    SetToSortedSeq({p \in AllPaths : st[p] # <<>> /\ IsUnder(prefix, p)})

\* the paths the store maps to endpoint a
PathsOf(st, a) == {p \in AllPaths : InSeq(st[p], a)}

\* ------------------------------------------------------------------- state
VARIABLES
    published,      \* Context.published: the Store
    clients,        \* Context.clients: write_addr -> record id, 0 if absent
    info,           \* the ClientInfoInner behind each ClientInfo handle
    stops,          \* Stops.stops: ids whose stop sender is held
    stop_id,        \* Stops.stop_id
    poisoned,       \* the context lock was poisoned by a panic under it
    pc,             \* where each session task is
    hello,          \* handle_client: hello
    client,         \* handle_client: client (the record the session holds)
    client_added,   \* handle_client: client_added
    batch,          \* handle_client: batch
    batch_needs_write_lock,
    response,       \* handle_client: response
    stopsig,        \* state of the session's client_stop receiver
    clock,          \* Instant::now()
    nextTick,       \* deadline of the scavenger's next Interval item
    scav,           \* the scavenger task: "running" or "panicked"
    server_hello,   \* the ServerHello messages a session wrote: <<ttl_expired>>
    wire,           \* responses written to the socket for the batch at hand
    done,           \* the batch at hand, each request with its response
    live,           \* <<path, addr>> advertised and not unpublished or timed out since
    acked,          \* members of live whose Published was written to the socket
    folded,         \* per session: union/difference fold of its write requests
    boundary,       \* the Store as the last finished write batch left it
    c_pc,           \* where the client's connection task is
    c_con,          \* connection: con (the server session behind it, 0 for None)
    c_tcp,          \* connect: con (the server session behind it, 0 before)
    c_published,    \* connection: published
    c_msg,          \* connection: m of M::Msg((m, reply))
    c_why,          \* which arm of connection called connect: "hb" or "msg"
    c_loop,         \* when the timers hb and dc of this turn of the loop were made
    c_calls,        \* requests submitted by callers so far
    c_stalls,       \* times the client's task was not run when a timer was due
    c_adv,          \* paths of acknowledged publish calls not unpublished since
    reachable,      \* TcpStream::connect to the resolver succeeds
    c_dropped,      \* every Resolver handle (the senders of the queue) was dropped
    c_enq,          \* every (m, reply) put on the queue by Resolver::send, in order
    c_replies,      \* every reply.send(r), in order, each with its request
    c_tries,        \* times c.send was called for the request at hand
    ended,          \* each session's first message, and why its task returned
    server,         \* the Server value and its accept_loop
    signalled,      \* the stop ids that Stops::stop sent () to
    b_max,          \* Batched: max (0: no Batched was made)
    b_ended,        \* Batched: ended
    b_current,      \* Batched: current
    b_inner,        \* Batched: stream, the inner stream: "open" or "ended"
    b_given,        \* items the inner stream has yielded
    b_out,          \* what poll_next of the Batched returned, poll by poll
    l_prog,         \* per task: the lock operations and awaits it has yet to do
    l_outer,        \* per task: how it holds the context RwLock: "none", "read", "write"
    l_mutex,        \* per record: the task that holds its Mutex, -1 if free
    k_pc,           \* connect: where one call of it is
    k_backoff,      \* connect: backoff
    k_log,          \* connect: per attempt of this call, the seconds slept before it
    k_fails,        \* connect: what made each failed attempt of this call fail
    q_ref,          \* the state had each request of the session been a batch of its own
    q_lost          \* the batch a session was gathering when its task last returned

\* the client's variables
\* the queue and its history, and the network: moved by SpecRetry alone
hvars == <<reachable, c_dropped, c_enq, c_replies, c_tries>>

\* the Server handle and the shutdown it starts
\* a Batched stream and the stream it wraps
bvars == <<b_max, b_ended, b_current, b_inner, b_given, b_out>>

\* the locks, and where each task is in taking and releasing them
lvars == <<l_prog, l_outer, l_mutex>>

kvars == <<k_pc, k_backoff, k_log, k_fails>>

qvars == <<q_ref, q_lost>>

xvars == <<server, signalled, bvars, lvars, kvars, qvars>>

cvars == <<c_pc, c_con, c_tcp, c_published, c_msg, c_why, c_loop, c_calls,
           c_stalls, c_adv, hvars>>

vars == <<published, clients, info, stops, stop_id, poisoned, pc, hello, client,
          client_added, batch, batch_needs_write_lock, response, stopsig, clock,
          nextTick, scav, server_hello, wire, done, live, acked, folded, boundary,
          cvars, ended, xvars>>

\* One ClientInfo can be created per session (resolver_server.rs:175,180).
RecIds == Sessions

ClientInfoNew(addr, ttl, stop, now) ==
    [addr |-> addr, ttl |-> ttl, last |-> now, published |-> {}, stop |-> stop]

NoInfo == [addr |-> 0, ttl |-> 0, last |-> 0, published |-> {}, stop |-> 0]

\* ----------------------------------------------------------------- Context
\* Context::publish checks each path as it goes: the absolute paths of a list
\* with a relative one are published before the error is returned
ContextPublish_Partial(st, paths, ci) ==
    LET sorted == SortPaths(paths)
        abs == SelectSeq(sorted, IsAbsolute)
    IN [pub |-> StoreChange(st, abs, "Publish", ci.addr),
        ci |-> [ci EXCEPT !.published = @ \cup Range(abs)],
        resp |-> IF abs = sorted THEN Published
                 ELSE Error("publish relative path")]

\* ContextPublish without the insert into the record's published set
ContextPublish_NoInsert(st, paths, ci) ==
    LET sorted == SortPaths(paths) IN
    IF ~(\A i \in 1..Len(sorted) : IsAbsolute(sorted[i]))
    THEN [pub |-> st, ci |-> ci, resp |-> Error("publish relative path")]
    ELSE [pub |-> StoreChange(st, sorted, "Publish", ci.addr),
          ci |-> ci,
          resp |-> Published]

\* the paths ps taken from the store for each endpoint of as
RECURSIVE UnpublishAll(_, _, _)
UnpublishAll(st, ps, as) ==
    IF as = {} THEN st
    ELSE LET a == CHOOSE x \in as : TRUE
         IN UnpublishAll(StoreChange(st, ps, "Unpublish", a), ps, as \ {a})

\* Context::publish taking the paths over from whoever advertised them
ContextPublish_Takeover(st, paths, ci) ==
    LET sorted == SortPaths(paths) IN
    IF ~(\A i \in 1..Len(sorted) : IsAbsolute(sorted[i]))
    THEN [pub |-> st, ci |-> ci, resp |-> Error("publish relative path")]
    ELSE [pub |-> StoreChange(UnpublishAll(st, sorted, Addrs), sorted, "Publish",
                              ci.addr),
          ci |-> [ci EXCEPT !.published = @ \cup Range(sorted)],
          resp |-> Published]

\* Context::publish
ContextPublish(st, paths, ci) ==
    LET sorted == SortPaths(paths) IN
    IF ~(\A i \in 1..Len(sorted) : IsAbsolute(sorted[i]))
    THEN [pub |-> st, ci |-> ci, resp |-> Error("publish relative path")]
    ELSE [pub |-> StoreChange(st, sorted, "Publish", ci.addr),
          ci |-> [ci EXCEPT !.published = @ \cup Range(sorted)],
          resp |-> Published]

\* ContextUnpublish removing the paths whoever published them
ContextUnpublish_AnyEndpoint(st, paths, ci) ==
    LET sorted == SortPaths(paths) IN
    [pub |-> UnpublishAll(st, sorted, Addrs),
     ci |-> [ci EXCEPT !.published = @ \ Range(sorted)],
     resp |-> Unpublished]

\* Context::unpublish
ContextUnpublish(st, paths, ci) ==
    LET sorted == SortPaths(paths) IN
    [pub |-> StoreChange(st, sorted, "Unpublish", ci.addr),
     ci |-> [ci EXCEPT !.published = @ \ Range(sorted)],
     resp |-> Unpublished]

\* Context::timeout_client taking the record's paths out of the directory
\* whoever advertises them
TimeoutClient_WholePath(st, ci) ==
    UnpublishAll(st, SetToSortedSeq(ci.published), Addrs)

\* Context::timeout_client, the store half
TimeoutClient(st, ci) ==
    StoreChange(st, SetToSortedSeq(ci.published), "Unpublish", ci.addr)

\* handle_client: ctx.clients.read().unwrap().get(&write_addr) is Some
KnownClient(h, cl) == h.kind = "ReadWrite" /\ cl[h.write_addr] # 0

\* TtlExpired without the registry lookup
TtlExpired_NoLookup(h, cl) == h.kind = "ReadWrite"

\* handle_client: the ttl_expired of the ServerHello
TtlExpired(h, cl) == h.kind = "ReadWrite" /\ ~KnownClient(h, cl)

\* client_scavenger: the expiry test
Expired(ci, now) == now - ci.last > ci.ttl

\* t.resolve(path) and t.list(path): the lookups of the Store; a relative path
\* is answered with an Error
ContextResolve(st, p) ==
    IF IsAbsolute(p) THEN Resolved(StoreResolve(st, p)) ELSE Error("relative path")

ContextList(st, p) ==
    IF IsAbsolute(p) THEN Listed(StoreList(st, p)) ELSE Error("relative path")

\* handle_client: one request of a batch under the exclusive lock
ExecWrite(m, acc) ==
    CASE m.op = "Resolve" ->
           [acc EXCEPT !.resp = Append(@, ContextResolve(acc.pub, m.paths[1]))]
      [] m.op = "List" ->
           [acc EXCEPT !.resp = Append(@, ContextList(acc.pub, m.paths[1]))]
      [] m.op = "Publish" ->
           LET r == ContextPublish(acc.pub, m.paths, acc.ci)
           IN [pub |-> r.pub, ci |-> r.ci, resp |-> Append(acc.resp, r.resp)]
      [] m.op = "Unpublish" ->
           LET r == ContextUnpublish(acc.pub, m.paths, acc.ci)
           IN [pub |-> r.pub, ci |-> r.ci, resp |-> Append(acc.resp, r.resp)]

\* handle_client: one request of a batch under the shared lock
ExecRead(m, acc) ==
    CASE m.op = "Resolve" ->
           [acc EXCEPT !.resp = Append(@, ContextResolve(acc.pub, m.paths[1]))]
      [] m.op = "List" ->
           [acc EXCEPT !.resp = Append(@, ContextList(acc.pub, m.paths[1]))]
      [] OTHER -> [acc EXCEPT !.resp = Append(@, Unreachable)]

\* handle_client: the batch is run from its last request to its first
RECURSIVE RunBatch_Reversed(_, _, _)
RunBatch_Reversed(b, acc, write) ==
    IF b = <<>> THEN acc
    ELSE RunBatch_Reversed(SubSeq(b, 1, Len(b) - 1),
                           IF write THEN ExecWrite(b[Len(b)], acc)
                           ELSE ExecRead(b[Len(b)], acc),
                           write)

\* handle_client: for m in batch.drain(0..)
RECURSIVE RunBatch(_, _, _)
RunBatch(b, acc, write) ==
    IF b = <<>> THEN acc
    ELSE RunBatch(Tail(b),
                  IF write THEN ExecWrite(Head(b), acc) ELSE ExecRead(Head(b), acc),
                  write)

\* -------------------------------------------------------- the context lock
\* the sessions inside the locked section of handle_client
Holders == {s \in Sessions : pc[s] = "locked"}

\* LockMode taking the shared lock for every batch
LockMode_Shared(w) == "read"

\* handle_client: ctx.0.write() if batch_needs_write_lock, else ctx.0.read()
LockMode(w) == IF w THEN "write" ELSE "read"

\* RwLock: task s (0: not a session) is granted the lock in `mode`
CanLock(s, mode) ==
    \A o \in Holders \ {s} :
       mode = "read" /\ LockMode(batch_needs_write_lock[o]) = "read"

\* ------------------------------------------------------- history operators
AllAbsolute(ps) == \A i \in 1..Len(ps) : IsAbsolute(ps[i])

\* the advertisements <<path, addr>> after the write requests of b by addr
RECURSIVE LiveAfter(_, _, _)
LiveAfter(b, a, L) ==
    IF b = <<>> THEN L
    ELSE LET m == Head(b)
             L1 == IF m.op = "Publish" /\ AllAbsolute(m.paths)
                   THEN L \cup {<<p, a>> : p \in Range(m.paths)}
                   ELSE IF m.op = "Unpublish"
                   THEN L \ {<<p, a>> : p \in Range(m.paths)}
                   ELSE L
         IN LiveAfter(Tail(b), a, L1)

\* set union for each Publish, set difference for each Unpublish; the fold
\* is only defined for requests whose paths are all absolute
RECURSIVE FoldWrites(_, _)
FoldWrites(b, f) ==
    IF b = <<>> THEN f
    ELSE LET m == Head(b)
             f1 == IF ~IsWrite(m) THEN f
                   ELSE IF ~AllAbsolute(m.paths) THEN [f EXCEPT !.valid = FALSE]
                   ELSE IF m.op = "Publish"
                   THEN [f EXCEPT !.paths = @ \cup Range(m.paths)]
                   ELSE [f EXCEPT !.paths = @ \ Range(m.paths)]
         IN FoldWrites(Tail(b), f1)

\* -------------------------------------------------------------------- Init
NoFold == [valid |-> FALSE, paths |-> {}]

NoMsg == [op |-> "none", paths |-> <<>>]

Init ==
    /\ published = StoreNew
    /\ clients = [a \in Addrs |-> 0]
    /\ info = [r \in RecIds |-> NoInfo]
    /\ stops = {0}
    /\ stop_id = 1
    /\ poisoned = FALSE
    /\ pc = [s \in Sessions |-> "unborn"]
    /\ hello = [s \in Sessions |-> HelloRO]
    /\ client = [s \in Sessions |-> 0]
    /\ client_added = [s \in Sessions |-> FALSE]
    /\ batch = [s \in Sessions |-> <<>>]
    /\ batch_needs_write_lock = [s \in Sessions |-> FALSE]
    /\ response = [s \in Sessions |-> <<>>]
    /\ stopsig = [s \in Sessions |-> "none"]
    /\ clock = 0
    /\ nextTick = 0
    /\ scav = "running"
    /\ server_hello = [s \in Sessions |-> <<>>]
    /\ wire = [s \in Sessions |-> <<>>]
    /\ done = [s \in Sessions |-> <<>>]
    /\ live = {}
    /\ acked = {}
    /\ folded = [s \in Sessions |-> NoFold]
    /\ boundary = StoreNew
    /\ c_pc = "wait"
    /\ c_con = 0
    /\ c_tcp = 0
    /\ c_published = {}
    /\ c_msg = NoMsg
    /\ c_why = "msg"
    /\ c_loop = 0
    /\ c_calls = 0
    /\ c_stalls = 0
    /\ c_adv = {}
    /\ reachable = TRUE
    /\ c_dropped = FALSE
    /\ c_enq = <<>>
    /\ c_replies = <<>>
    /\ c_tries = 0
    /\ ended = [s \in Sessions |-> [first |-> NoHello, why |-> "none"]]
    /\ server = "up"
    /\ signalled = {}
    /\ b_max = 0
    /\ b_ended = FALSE
    /\ b_current = 0
    /\ b_inner = "open"
    /\ b_given = 0
    /\ b_out = <<>>
    /\ l_prog = [t \in 0..(MaxSessions + 1) |-> <<>>]
    /\ l_outer = [t \in 0..(MaxSessions + 1) |-> "none"]
    /\ l_mutex = [r \in 1..MaxSessions |-> -1]
    /\ k_pc = "idle"
    /\ k_backoff = 0
    /\ k_log = <<>>
    /\ k_fails = <<>>
    /\ q_ref = [pub |-> StoreNew, cl |-> [a \in Addrs |-> 0], ci |-> NoInfo,
                added |-> FALSE, open |-> FALSE]
    /\ q_lost = <<>>

\* ----------------------------------------------------------------- actions
Alive(s) == pc[s] \in {"hello", "running", "writing", "flushed"}

\* Endpoints are interchangeable: session s claims one of the first s of them.
HellosOf(s) == {h \in Hellos : h.write_addr <= s}

\* A ClientInfo is freed with its last handle: inf with the records dropped
\* that neither the registry cl nor a session other than s holds.
Collect(inf, cl, s) ==
    [r \in RecIds |->
        IF \/ \E a \in Addrs : cl[a] = r
           \/ \E o \in Sessions \ {s} : Alive(o) /\ client[o] = r
        THEN inf[r] ELSE NoInfo]

\* Returns timing the session's record out as the scavenger would
Returns_Unpublish(s, inf, sig) ==
    LET r == client[s]
        cl == [a \in Addrs |-> IF r # 0 /\ clients[a] = r THEN 0 ELSE clients[a]]
    IN
    /\ published' = IF r # 0 THEN TimeoutClient(published, info[r]) ELSE published
    /\ clients' = cl
    /\ pc' = [pc EXCEPT ![s] = "closed"]
    /\ stops' = IF poisoned THEN stops ELSE stops \ {s}
    /\ stopsig' = [sig EXCEPT ![s] = "none"]
    /\ info' = Collect(inf, cl, s)
    /\ hello' = [hello EXCEPT ![s] = HelloRO]
    /\ client' = [client EXCEPT ![s] = 0]
    /\ client_added' = [client_added EXCEPT ![s] = FALSE]
    /\ batch' = [batch EXCEPT ![s] = <<>>]
    /\ batch_needs_write_lock' = [batch_needs_write_lock EXCEPT ![s] = FALSE]
    /\ response' = [response EXCEPT ![s] = <<>>]
    /\ server_hello' = [server_hello EXCEPT ![s] = <<>>]
    /\ wire' = [wire EXCEPT ![s] = <<>>]
    /\ done' = [done EXCEPT ![s] = <<>>]
    /\ folded' = [folded EXCEPT ![s] = NoFold]

\* Returns running the requests gathered so far before the task returns
Returns_Applies(s, inf, sig) ==
    LET r == client[s]
        res == RunBatch(batch[s], [pub |-> published, ci |-> inf[r], resp |-> <<>>],
                        TRUE)
        has == r # 0 /\ batch[s] # <<>>
        inf1 == IF has THEN [inf EXCEPT ![r] = res.ci] ELSE inf
    IN
    /\ CanLock(s, "write")
    /\ published' = IF has THEN res.pub ELSE published
    /\ clients' = clients
    /\ pc' = [pc EXCEPT ![s] = "closed"]
    /\ stops' = IF poisoned THEN stops ELSE stops \ {s}
    /\ stopsig' = [sig EXCEPT ![s] = "none"]
    /\ info' = Collect(inf1, clients, s)
    /\ hello' = [hello EXCEPT ![s] = HelloRO]
    /\ client' = [client EXCEPT ![s] = 0]
    /\ client_added' = [client_added EXCEPT ![s] = FALSE]
    /\ batch' = [batch EXCEPT ![s] = <<>>]
    /\ batch_needs_write_lock' = [batch_needs_write_lock EXCEPT ![s] = FALSE]
    /\ response' = [response EXCEPT ![s] = <<>>]
    /\ server_hello' = [server_hello EXCEPT ![s] = <<>>]
    /\ wire' = [wire EXCEPT ![s] = <<>>]
    /\ done' = [done EXCEPT ![s] = <<>>]
    /\ folded' = [folded EXCEPT ![s] = NoFold]

\* handle_client returns and start_client removes the session's stop
\* (stops.remove(&client)): the task's locals are dropped and the store and the
\* registry are left alone; inf and sig are the record table and the stop
\* receivers it leaves
Returns(s, inf, sig) ==
    /\ CanLock(s, "write")
    /\ published' = published
    /\ clients' = clients
    /\ pc' = [pc EXCEPT ![s] = "closed"]
    /\ stops' = IF poisoned THEN stops ELSE stops \ {s}
    /\ stopsig' = [sig EXCEPT ![s] = "none"]
    /\ info' = Collect(inf, clients, s)
    /\ hello' = [hello EXCEPT ![s] = HelloRO]
    /\ client' = [client EXCEPT ![s] = 0]
    /\ client_added' = [client_added EXCEPT ![s] = FALSE]
    /\ batch' = [batch EXCEPT ![s] = <<>>]
    /\ batch_needs_write_lock' = [batch_needs_write_lock EXCEPT ![s] = FALSE]
    /\ response' = [response EXCEPT ![s] = <<>>]
    /\ server_hello' = [server_hello EXCEPT ![s] = <<>>]
    /\ wire' = [wire EXCEPT ![s] = <<>>]
    /\ done' = [done EXCEPT ![s] = <<>>]
    /\ folded' = [folded EXCEPT ![s] = NoFold]

\* accept_loop: M::Client(client)
Accept ==
    /\ stop_id <= MaxSessions
    /\ CanLock(0, "write")
    /\ pc' = [pc EXCEPT ![stop_id] = "hello"]
    /\ stops' = stops \cup {stop_id}
    /\ stop_id' = stop_id + 1
    /\ UNCHANGED <<published, clients, info, poisoned, hello, client, client_added,
                   batch, batch_needs_write_lock, response, stopsig, clock, nextTick,
                   scav, server_hello, wire, done, live, acked, folded>>

\* handle_client: a ttl of 0 is let through
BadTtl_ZeroOk(ttl) == ttl < 0 \/ ttl > MaxTTL

\* handle_client: if ttl <= 0 || ttl > 3600 { return Err(()) }
BadTtl(ttl) == ttl <= 0 \/ ttl > MaxTTL

\* handle_client: the sender in the record is kept when another is stored
Replaced_Never(known, stop, o) == FALSE

\* handle_client: cl.stop = Some(tx_stop) on a known record drops the sender
\* that was there, the one of session o if stop = o
Replaced(known, stop, o) == known /\ stop = o

\* handle_client: the hello, up to the ServerHello being written (sent = the
\* write succeeded)
SessHello(s, h, sent) ==
    /\ pc[s] = "hello"
    /\ LET known == KnownClient(h, clients)
           badttl == h.kind = "ReadWrite" /\ BadTtl(h.ttl)
           panics == h.kind = "ReadWrite" /\ ~badttl /\ poisoned
           r == IF known THEN clients[h.write_addr] ELSE s
           ttl_expired == TtlExpired(h, clients)
           inf == [info EXCEPT ![r] =
                     IF known THEN [@ EXCEPT !.last = clock, !.stop = s]
                     ELSE IF h.kind = "ReadOnly"
                     THEN ClientInfoNew(PeerAddr(s), ReadOnlyTTL, s, clock)
                     ELSE ClientInfoNew(h.write_addr, h.ttl, s, clock)]
           sig == [o \in Sessions |->
                     IF Replaced(known, info[r].stop, o) /\ Alive(o)
                     THEN "dropped" ELSE stopsig[o]]
           \* sessions that claim the same write_addr
           same == {o \in Sessions \ {s} : Alive(o) /\ hello[o] # HelloRO
                                          /\ hello[o].write_addr = h.write_addr}
           fresh == /\ h.kind = "ReadWrite" /\ ~known /\ same = {}
                    /\ PathsOf(published, h.write_addr) = {}
       IN IF badttl \/ panics
          THEN Returns(s, info, stopsig)
          ELSE IF ~CanLock(s, "read") /\ h.kind = "ReadWrite"
          THEN FALSE
          ELSE IF ~sent
          THEN Returns(s, inf, sig)
          ELSE /\ pc' = [pc EXCEPT ![s] = "running"]
               /\ hello' = [hello EXCEPT ![s] = h]
               /\ info' = inf
               /\ stopsig' = sig
               /\ client' = [client EXCEPT ![s] = r]
               /\ client_added' = [client_added EXCEPT ![s] = known]
               /\ server_hello' = [server_hello EXCEPT ![s] = <<ttl_expired>>]
               /\ folded' = [o \in Sessions |->
                               IF o = s THEN [valid |-> fresh, paths |-> {}]
                               ELSE IF o \in same THEN NoFold
                               ELSE folded[o]]
               /\ UNCHANGED <<published, clients, stops, batch,
                              batch_needs_write_lock, response, wire, done>>
    /\ UNCHANGED <<stop_id, poisoned, clock, nextTick, scav, live, acked>>

\* handle_client: BatchItem::InBatch(M::Line(l)), l decodes to request m
SessLine(s, m) ==
    /\ pc[s] = "running"
    /\ Len(batch[s]) < MaxBatch
    /\ Len(batch[s]) < BatchMax
    /\ batch' = [batch EXCEPT ![s] = Append(@, m)]
    /\ batch_needs_write_lock' =
         [batch_needs_write_lock EXCEPT ![s] = @ \/ IsWrite(m)]
    /\ UNCHANGED <<published, clients, info, stops, stop_id, poisoned, pc, hello,
                   client, client_added, response, stopsig, clock, nextTick, scav,
                   server_hello, wire, done, live, acked, folded>>

\* handle_client: a ReadOnly session's write batch is let through
Rejected_Never(w, added, h) == FALSE

\* handle_client: if !client_added { .. ClientHello::ReadOnly => return Err(()) }
\* in the branch of a batch that needs the write lock
Rejected(w, added, h) == w /\ ~added /\ h.kind = "ReadOnly"

\* handle_client: only the write branch sets ci.last
Refresh_WriteOnly(ci, now, w) == IF w THEN [ci EXCEPT !.last = now] ELSE ci

\* handle_client: ci.last = Instant::now(), in the write branch and in the read
\* branch of EndBatch alike (w: the batch needs the write lock)
Refresh(ci, now, w) == [ci EXCEPT !.last = now]

\* handle_client: BatchItem::EndBatch, the section under the context lock
SessEndBatch(s) ==
    /\ pc[s] = "running"
    /\ batch[s] # <<>>
    /\ CanLock(s, LockMode(batch_needs_write_lock[s]))
    /\ LET r == client[s]
           w == batch_needs_write_lock[s]
           ci0 == Refresh(info[r], clock, w)
           rejected == Rejected(w, client_added[s], hello[s])
           res == RunBatch(batch[s], [pub |-> published, ci |-> ci0, resp |-> <<>>], w)
       IN IF poisoned
          THEN /\ Returns(s, info, stopsig)
               /\ UNCHANGED <<live, acked>>
          ELSE IF rejected
          THEN /\ Returns(s, [info EXCEPT ![r] = ci0], stopsig)
               /\ UNCHANGED <<live, acked>>
          ELSE /\ published' = res.pub
               /\ info' = [info EXCEPT ![r] = res.ci]
               /\ clients' = IF w /\ ~client_added[s]
                             THEN [clients EXCEPT ![hello[s].write_addr] = r]
                             ELSE clients
               /\ client_added' = [client_added EXCEPT ![s] = @ \/ w]
               /\ response' = [response EXCEPT ![s] = res.resp]
               /\ batch' = [batch EXCEPT ![s] = <<>>]
               /\ pc' = [pc EXCEPT ![s] = "writing"]
               /\ done' = [done EXCEPT ![s] =
                             [i \in 1..Len(batch[s]) |->
                                 [req |-> batch[s][i], resp |-> res.resp[i]]]]
               /\ live' = IF w THEN LiveAfter(batch[s], ci0.addr, live) ELSE live
               /\ acked' = IF w THEN acked \cap LiveAfter(batch[s], ci0.addr, live)
                           ELSE acked
               /\ folded' = [folded EXCEPT ![s] = FoldWrites(batch[s], @)]
               /\ UNCHANGED <<stops, hello, client, batch_needs_write_lock,
                              server_hello, wire, stopsig>>
    /\ UNCHANGED <<stop_id, poisoned, clock, nextTick, scav>>

\* handle_client: while let Some(m) = response.pop() { send }, of which the
\* first k sends succeed
SessWrite(s, k) ==
    /\ pc[s] = "writing"
    /\ k \in 0..Len(response[s])
    /\ LET n == Len(response[s])
           written == {i \in 1..n : i > n - k}
           out == SubSeq(Reverse(response[s]), 1, k)
       IN /\ acked' = acked \cup
                {pa \in live :
                    /\ pa[2] = info[client[s]].addr
                    /\ \E i \in written :
                         /\ done[s][i].resp = Published
                         /\ pa[1] \in Range(done[s][i].req.paths)}
          /\ IF k = n
             THEN /\ pc' = [pc EXCEPT ![s] = "flushed"]
                  /\ response' = [response EXCEPT ![s] = <<>>]
                  /\ wire' = [wire EXCEPT ![s] = out]
                  /\ UNCHANGED <<published, clients, info, stops, hello, client,
                                 client_added, batch, batch_needs_write_lock,
                                 server_hello, folded, stopsig, done>>
             ELSE Returns(s, info, stopsig)
    /\ UNCHANGED <<stop_id, poisoned, clock, nextTick, scav, live>>

\* handle_client: batch_needs_write_lock = false, and back to the stream; the
\* peer has read the responses
SessBatchDone(s) ==
    /\ pc[s] = "flushed"
    /\ pc' = [pc EXCEPT ![s] = "running"]
    /\ batch_needs_write_lock' = [batch_needs_write_lock EXCEPT ![s] = FALSE]
    /\ wire' = [wire EXCEPT ![s] = <<>>]
    /\ done' = [done EXCEPT ![s] = <<>>]
    /\ UNCHANGED <<published, clients, info, stops, stop_id, poisoned, hello, client,
                   client_added, batch, response, stopsig, clock, nextTick, scav,
                   server_hello, live, acked, folded>>

\* handle_client: the line stream fails, or a line does not decode
SessError(s) ==
    /\ pc[s] \in {"hello", "running"}
    /\ Returns(s, info, stopsig)
    /\ UNCHANGED <<stop_id, poisoned, clock, nextTick, scav, live, acked>>

\* handle_client: M::Stop (the record's stop was sent), or the stop sender was
\* dropped and the stream fails
SessStop(s) ==
    /\ pc[s] = "running"
    /\ stopsig[s] # "none"
    /\ Returns(s, info, stopsig)
    /\ UNCHANGED <<stop_id, poisoned, clock, nextTick, scav, live, acked>>

RECURSIVE TimeoutAll(_, _)
TimeoutAll(st, recs) ==
    IF recs = {} THEN st
    ELSE LET r == CHOOSE x \in recs : TRUE
         IN TimeoutAll(TimeoutClient(st, info[r]), recs \ {r})

\* client_scavenger: M::Tick(now). `seen` are the records the loop reaches: all
\* of them, or those before the first one whose last is later than now, where
\* now - cl.last panics with the lock held.
ScavTick(seen) ==
    /\ scav = "running"
    /\ clock >= nextTick
    /\ CanLock(0, "write")
    /\ LET now == nextTick
           regd == {a \in Addrs : clients[a] # 0}
           late == {a \in regd : info[clients[a]].last > now}
           expired == {a \in seen : Expired(info[clients[a]], now)}
           recs == {clients[a] : a \in expired}
           cl == IF late = {}
                 THEN [a \in Addrs |-> IF a \in expired THEN 0 ELSE clients[a]]
                 ELSE clients
       IN /\ seen \subseteq regd \ late
          /\ late = {} => seen = regd
          /\ published' = TimeoutAll(published, recs)
          /\ info' = Collect([r \in RecIds |->
                                IF r \in recs THEN [info[r] EXCEPT !.stop = 0]
                                ELSE info[r]], cl, 0)
          /\ stopsig' = [s \in Sessions |->
                           IF Alive(s) /\ \E r \in recs : info[r].stop = s
                           THEN "sent" ELSE stopsig[s]]
          /\ clients' = cl
          /\ poisoned' = (late # {})
          /\ scav' = IF late = {} THEN "running" ELSE "panicked"
          /\ live' = {pa \in live : pa[2] \notin expired}
          /\ acked' = {pa \in acked : pa[2] \notin expired}
          /\ folded' = [s \in Sessions |->
                          IF client[s] \in recs THEN NoFold ELSE folded[s]]
    /\ nextTick' = nextTick + ScavengerPeriod
    /\ UNCHANGED <<stops, stop_id, pc, hello, client, client_added, batch,
                   batch_needs_write_lock, response, clock, server_hello, wire,
                   done>>

\* time passes up to the next timer deadline
Deadlines == {nextTick, nextTick + ScavengerPeriod}

AdvanceUpTo(max) ==
    /\ \E d \in Deadlines :
         /\ d > clock
         /\ \A e \in Deadlines : e > clock => d <= e
         /\ d <= max
         /\ clock' = d
    /\ UNCHANGED <<published, clients, info, stops, stop_id, poisoned, pc, hello,
                   client, client_added, batch, batch_needs_write_lock, response,
                   stopsig, nextTick, scav, server_hello, wire, done, live, acked,
                   folded>>

Advance == AdvanceUpTo(MaxClock)

Next ==
    \/ Accept /\ UNCHANGED <<boundary, cvars, ended, xvars>>
    \/ \E s \in Sessions : \E h \in HellosOf(s), sent \in BOOLEAN :
          SessHello(s, h, sent) /\ UNCHANGED <<boundary, cvars, ended, xvars>>
    \/ \E s \in Sessions, m \in Requests :
          batch[s] = <<>> /\ SessLine(s, m) /\ UNCHANGED <<boundary, cvars, ended, xvars>>
    \/ \E s \in Sessions : SessEndBatch(s) /\ UNCHANGED <<boundary, cvars, ended, xvars>>
    \/ \E s \in Sessions, k \in 0..MaxBatch :
          SessWrite(s, k) /\ UNCHANGED <<boundary, cvars, ended, xvars>>
    \/ \E s \in Sessions : SessBatchDone(s) /\ UNCHANGED <<boundary, cvars, ended, xvars>>
    \/ \E s \in Sessions : SessError(s) /\ UNCHANGED <<boundary, cvars, ended, xvars>>
    \/ \E s \in Sessions : SessStop(s) /\ UNCHANGED <<boundary, cvars, ended, xvars>>
    \/ \E seen \in SUBSET Addrs : ScavTick(seen) /\ UNCHANGED <<boundary, cvars, ended, xvars>>
    \/ Advance /\ UNCHANGED <<boundary, cvars, ended, xvars>>

Spec == Init /\ [][Next]_vars

\* ------------------------------------------- the locked section, step by step
\* handle_client: BatchItem::EndBatch takes the context lock and the record,
\* refreshes last and registers the record of a first write batch
SessLock(s) ==
    /\ pc[s] = "running"
    /\ batch[s] # <<>>
    /\ CanLock(s, LockMode(batch_needs_write_lock[s]))
    /\ LET r == client[s]
           w == batch_needs_write_lock[s]
           ci0 == Refresh(info[r], clock, w)
           rejected == Rejected(w, client_added[s], hello[s])
       IN IF poisoned
          THEN Returns(s, info, stopsig)
          ELSE IF rejected
          THEN Returns(s, [info EXCEPT ![r] = ci0], stopsig)
          ELSE /\ pc' = [pc EXCEPT ![s] = "locked"]
               /\ info' = [info EXCEPT ![r] = ci0]
               /\ clients' = IF w /\ ~client_added[s]
                             THEN [clients EXCEPT ![hello[s].write_addr] = r]
                             ELSE clients
               /\ client_added' = [client_added EXCEPT ![s] = @ \/ w]
               /\ UNCHANGED <<published, stops, hello, client, batch,
                              batch_needs_write_lock, response, server_hello, wire,
                              done, folded, stopsig>>
    /\ UNCHANGED <<stop_id, poisoned, clock, nextTick, scav, live, acked, boundary>>

\* handle_client: one turn of for m in batch.drain(0..)
SessExec(s) ==
    /\ pc[s] = "locked"
    /\ batch[s] # <<>>
    /\ LET r == client[s]
           m == Head(batch[s])
           acc == [pub |-> published, ci |-> info[r], resp |-> response[s]]
           res == IF batch_needs_write_lock[s] THEN ExecWrite(m, acc)
                  ELSE ExecRead(m, acc)
       IN /\ published' = res.pub
          /\ info' = [info EXCEPT ![r] = res.ci]
          /\ response' = [response EXCEPT ![s] = res.resp]
          /\ batch' = [batch EXCEPT ![s] = Tail(@)]
          /\ done' = [done EXCEPT ![s] =
                        Append(@, [req |-> m, resp |-> res.resp[Len(res.resp)]])]
    /\ UNCHANGED <<clients, stops, stop_id, poisoned, pc, hello, client, client_added,
                   batch_needs_write_lock, stopsig, clock, nextTick, scav,
                   server_hello, wire, live, acked, folded, boundary>>

\* handle_client: the lock guard goes out of scope after the last request
SessUnlock(s) ==
    /\ pc[s] = "locked"
    /\ batch[s] = <<>>
    /\ pc' = [pc EXCEPT ![s] = "writing"]
    /\ boundary' = IF batch_needs_write_lock[s] THEN published ELSE boundary
    /\ UNCHANGED <<published, clients, info, stops, stop_id, poisoned, hello, client,
                   client_added, batch, batch_needs_write_lock, response, stopsig,
                   clock, nextTick, scav, server_hello, wire, done, live, acked,
                   folded>>

\* The server without its scavenger, the locked section of a batch taken one
\* request at a time. live, acked and folded are history variables of Spec and
\* are not recorded here.
NextLock ==
    \/ Accept /\ UNCHANGED <<boundary, cvars, ended, xvars>>
    \/ \E s \in Sessions : \E h \in HellosOf(s), sent \in BOOLEAN :
          SessHello(s, h, sent) /\ UNCHANGED <<boundary, cvars, ended, xvars>>
    \/ \E s \in Sessions, m \in Requests :
          SessLine(s, m) /\ UNCHANGED <<boundary, cvars, ended, xvars>>
    \/ \E s \in Sessions : SessLock(s) /\ UNCHANGED <<cvars, ended, xvars>>
    \/ \E s \in Sessions : SessExec(s) /\ UNCHANGED <<cvars, ended, xvars>>
    \/ \E s \in Sessions : SessUnlock(s) /\ UNCHANGED <<cvars, ended, xvars>>
    \/ \E s \in Sessions, k \in 0..MaxBatch :
          SessWrite(s, k) /\ UNCHANGED <<boundary, cvars, ended, xvars>>
    \/ \E s \in Sessions : SessBatchDone(s) /\ UNCHANGED <<boundary, cvars, ended, xvars>>
    \/ \E s \in Sessions : SessError(s) /\ UNCHANGED <<boundary, cvars, ended, xvars>>
    \/ \E s \in Sessions : SessStop(s) /\ UNCHANGED <<boundary, cvars, ended, xvars>>

SpecLock == Init /\ [][NextLock]_vars

\* ------------------------------------------------ requests that are refused
\* the hellos and the requests drawn here: ttls at and beyond both ends of the
\* range, paths that are relative
ErrTTLs == {0, 1, MaxTTL, MaxTTL + 1}
ErrHellos == {HelloRO} \cup {HelloRW(t, 1) : t \in ErrTTLs}
ErrRequests ==
    {Req("Resolve", <<REL>>), Req("List", <<REL>>), Req("Publish", <<PA, REL>>),
     Req("Publish", <<PA>>), Req("Unpublish", <<REL>>)}

\* The first session may be a writer; the later ones are readers, or refused.
ErrHellosOf(s) ==
    {h \in ErrHellos : s > 1 /\ h.kind = "ReadWrite" => BadTtl(h.ttl)}

\* session s got h as its first message; its task has returned for `why` if it
\* has returned
Ends(s, h, why) ==
    /\ ended' = [ended EXCEPT ![s] =
                   [first |-> h, why |-> IF pc'[s] = "closed" THEN why ELSE "none"]]
    /\ UNCHANGED xvars

\* The server on a network that does not fail, given hellos and requests it
\* refuses among those it serves; the locked section of a batch is taken one
\* request at a time. live, acked and folded are not recorded here.
NextErr ==
    \/ Accept /\ UNCHANGED <<boundary, cvars, ended, xvars>>
    \/ \E s \in Sessions : \E h \in ErrHellosOf(s) :
          SessHello(s, h, TRUE) /\ Ends(s, h, "hello") /\ UNCHANGED <<boundary, cvars>>
    \/ \E s \in Sessions, m \in ErrRequests :
          SessLine(s, m) /\ UNCHANGED <<boundary, cvars, ended, xvars>>
    \/ \E s \in Sessions :
          SessLock(s) /\ Ends(s, ended[s].first, "batch") /\ UNCHANGED cvars
    \/ \E s \in Sessions : SessExec(s) /\ UNCHANGED <<cvars, ended, xvars>>
    \/ \E s \in Sessions : SessUnlock(s) /\ UNCHANGED <<cvars, ended, xvars>>
    \/ \E s \in Sessions :
          SessWrite(s, Len(response[s])) /\ UNCHANGED <<boundary, cvars, ended, xvars>>
    \/ \E s \in Sessions : SessBatchDone(s) /\ UNCHANGED <<boundary, cvars, ended, xvars>>
    \/ \E s \in Sessions :
          /\ SessError(s)
          /\ Ends(s, IF pc[s] = "hello" THEN Missing ELSE ended[s].first, "error")
          /\ UNCHANGED <<boundary, cvars>>

SpecErr == Init /\ [][NextErr]_vars

\* -------------------------------------------------- the reconnecting client
\* The client is write capable: connection(receiver, resolver, Some(publisher)).
WriteAddr == 1

\* connect: the ClientHello it sends
ClientHelloMsg == HelloRW(TTL, WriteAddr)

\* what callers submit through Resolver::send
ClientCalls == {Req("Publish", <<PA>>), Req("Unpublish", <<PA>>)}

\* connect: never republishes
Republishes_Never(ttl_expired) == FALSE

\* connect: if !ttl_expired { break con } else { ... Publish(paths) ... }
Republishes(ttl_expired) == ttl_expired

\* connect: break con, back in the arm of connection that called it
Connected ==
    /\ c_con' = c_tcp
    /\ c_tcp' = 0
    /\ IF c_why = "hb"
       THEN c_pc' = "wait" /\ c_loop' = clock
       ELSE c_pc' = "send" /\ c_loop' = c_loop

\* connection: M::Stop, every Resolver handle was dropped
CliStop ==
    /\ c_pc = "wait"
    /\ c_pc' = "stopped"
    /\ c_con' = 0
    /\ UNCHANGED <<c_tcp, c_published, c_msg, c_why, c_loop, c_calls, c_stalls, c_adv>>

\* connection: M::TimeToDC. hb and dc are made anew in each turn of the loop
\* and raced, hb first.
CliTimeToDC ==
    /\ c_pc = "wait"
    /\ clock >= c_loop + LINGER
    /\ clock < c_loop + TTL \div 2
    /\ c_con' = 0
    /\ c_loop' = clock
    /\ UNCHANGED <<c_pc, c_tcp, c_published, c_msg, c_why, c_calls, c_stalls, c_adv>>

\* connection: M::TimeToHB
CliTimeToHB ==
    /\ c_pc = "wait"
    /\ clock >= c_loop + TTL \div 2
    /\ c_pc' = "connect"
    /\ c_why' = "hb"
    /\ UNCHANGED <<c_con, c_tcp, c_published, c_msg, c_loop, c_calls, c_stalls, c_adv>>

\* connection: M::Msg((m, reply)), before either timer is due
CliMsg(m) ==
    /\ c_pc = "wait"
    /\ clock < c_loop + LINGER
    /\ c_calls < MaxCalls
    /\ c_calls' = c_calls + 1
    /\ c_msg' = m
    /\ c_why' = "msg"
    /\ c_pc' = IF c_con = 0 THEN "connect" ELSE "send"
    /\ UNCHANGED <<c_con, c_tcp, c_published, c_loop, c_stalls, c_adv>>

\* connect: TcpStream::connect and the ClientHello sent; the server accepts
CliTcpConnect ==
    /\ c_pc = "connect"
    /\ Accept
    /\ c_tcp' = stop_id
    /\ c_pc' = "hello"
    /\ UNCHANGED <<c_con, c_published, c_msg, c_why, c_loop, c_calls, c_stalls, c_adv>>

\* connect: the server handles the hello and the client reads the ServerHello:
\* done if ttl_expired is false, else it is to send Publish(published)
CliHello ==
    /\ c_pc = "hello"
    /\ SessHello(c_tcp, ClientHelloMsg, TRUE)
    /\ IF pc'[c_tcp] = "closed"
       THEN c_pc' = "connect" /\ c_tcp' = 0 /\ UNCHANGED <<c_con, c_loop>>
       ELSE IF ~Republishes(server_hello'[c_tcp][1])
       THEN Connected
       ELSE c_pc' = "republish" /\ UNCHANGED <<c_con, c_tcp, c_loop>>
    /\ UNCHANGED <<c_published, c_msg, c_why, c_calls, c_stalls, c_adv>>

\* connect: con.send(ToResolver::Publish(paths)), paths the whole of published
CliRepublish ==
    /\ c_pc = "republish"
    /\ SessLine(c_tcp, Req("Publish", SetToSortedSeq(c_published)))
    /\ c_pc' = "republished"
    /\ UNCHANGED <<c_con, c_tcp, c_published, c_msg, c_why, c_loop, c_calls, c_stalls,
                   c_adv>>

\* connect: con.next() after the republish: break con on Published, else
\* another turn of the loop
CliRepublished ==
    /\ c_pc = "republished"
    /\ pc[c_tcp] = "flushed"
    /\ SessBatchDone(c_tcp)
    /\ IF wire[c_tcp][1] = Published
       THEN Connected
       ELSE c_pc' = "connect" /\ c_tcp' = 0 /\ UNCHANGED <<c_con, c_loop>>
    /\ UNCHANGED <<c_published, c_msg, c_why, c_calls, c_stalls, c_adv>>

\* connection: c.send(m_r.clone())
CliSend ==
    /\ c_pc = "send"
    /\ SessLine(c_con, c_msg)
    /\ c_pc' = "await"
    /\ UNCHANGED <<c_con, c_tcp, c_published, c_msg, c_why, c_loop, c_calls, c_stalls,
                   c_adv>>

\* connection: c.next() yields the response r and reply.send(r); published is
\* extended on Published if the request was a Publish
CliRecv ==
    /\ c_pc = "await"
    /\ pc[c_con] = "flushed"
    /\ SessBatchDone(c_con)
    /\ LET r == wire[c_con][1] IN
       /\ c_published' = IF r = Published /\ c_msg.op = "Publish"
                         THEN c_published \cup Range(c_msg.paths)
                         ELSE c_published
       /\ c_adv' = IF r = Published /\ c_msg.op = "Publish"
                   THEN c_adv \cup Range(c_msg.paths)
                   ELSE IF r = Unpublished
                   THEN c_adv \ Range(c_msg.paths)
                   ELSE c_adv
    /\ c_pc' = "wait"
    /\ c_loop' = clock
    /\ c_msg' = NoMsg
    /\ UNCHANGED <<c_con, c_tcp, c_why, c_calls, c_stalls>>

\* connection: the request at hand is given up with the connection
CliConLost_Skips ==
    /\ c_pc \in {"send", "await"}
    /\ pc[c_con] = "closed"
    /\ c_con' = 0
    /\ c_pc' = "wait"
    /\ c_msg' = NoMsg
    /\ UNCHANGED <<c_tcp, c_published, c_why, c_loop, c_calls, c_stalls, c_adv>>

\* connection: the send fails or c.next() is None: con = None and another turn
\* of the inner loop, which connects
CliConLost ==
    /\ c_pc \in {"send", "await"}
    /\ pc[c_con] = "closed"
    /\ c_con' = 0
    /\ c_pc' = "connect"
    /\ UNCHANGED <<c_tcp, c_published, c_msg, c_why, c_loop, c_calls, c_stalls, c_adv>>

\* connect: con.next() is None: another turn of the loop
CliRetry ==
    /\ c_pc \in {"hello", "republish", "republished"}
    /\ pc[c_tcp] = "closed"
    /\ c_tcp' = 0
    /\ c_pc' = "connect"
    /\ UNCHANGED <<c_con, c_published, c_msg, c_why, c_loop, c_calls, c_stalls, c_adv>>

\* svars: the server's variables
svars == <<published, clients, info, stops, stop_id, poisoned, pc, hello, client,
           client_added, batch, batch_needs_write_lock, response, stopsig, clock,
           nextTick, scav, server_hello, wire, done, live, acked, folded, boundary>>

\* the timers the client's task waits on
ClientDeadlines ==
    IF c_pc = "wait" THEN {c_loop + LINGER, c_loop + TTL \div 2} ELSE {}

\* every instant a record holds, moved back by d
Shift(inf, d) ==
    [r \in RecIds |->
        IF inf[r] = NoInfo THEN NoInfo ELSE [inf[r] EXCEPT !.last = @ - d]]

\* Time passes up to the next timer deadline, while the client's task waits
\* for one. Instants are kept relative to now: rather than the clock moving on
\* by d, every instant held moves back by d. A round trip to the server takes
\* no time on the scale of the timers, and the server's tasks are served on
\* time; the client's task may be left waiting when its dc timer is due (a
\* stall), up to its hb timer.
CliAdvance ==
    /\ c_pc = "wait"
    /\ nextTick > clock
    /\ clock < c_loop + TTL \div 2
    /\ \A s \in Sessions : pc[s] = "running" => stopsig[s] = "none"
    /\ LET due == clock = c_loop + LINGER
           ds == {nextTick} \cup ClientDeadlines
       IN /\ due => c_stalls < MaxStalls
          /\ c_stalls' = IF due THEN c_stalls + 1 ELSE c_stalls
          /\ \E t \in ds :
                /\ t > clock
                /\ \A e \in ds : e > clock => t <= e
                /\ \A r \in RecIds :
                      info[r] # NoInfo => t - info[r].last <= MaxAge
                /\ info' = Shift(info, t - clock)
                /\ nextTick' = nextTick - (t - clock)
                /\ c_loop' = c_loop - (t - clock)
    /\ UNCHANGED <<published, clients, stops, stop_id, poisoned, pc, hello, client,
                   client_added, batch, batch_needs_write_lock, response, stopsig,
                   clock, scav, server_hello, wire, done, live, acked, folded,
                   boundary, c_pc, c_con, c_tcp, c_published, c_msg, c_why, c_calls,
                   c_adv>>

\* The client against the server it can reach: the server's sessions are the
\* client's connections, and every write to a socket succeeds.
NextClient ==
    \/ CliStop /\ UNCHANGED <<svars, ended, xvars, hvars>>
    \/ CliTimeToDC /\ UNCHANGED <<svars, ended, xvars, hvars>>
    \/ CliTimeToHB /\ UNCHANGED <<svars, ended, xvars, hvars>>
    \/ \E m \in ClientCalls : CliMsg(m) /\ UNCHANGED <<svars, ended, xvars, hvars>>
    \/ CliTcpConnect /\ UNCHANGED <<boundary, ended, xvars, hvars>>
    \/ CliHello /\ UNCHANGED <<boundary, ended, xvars, hvars>>
    \/ CliRepublish /\ UNCHANGED <<boundary, ended, xvars, hvars>>
    \/ CliRepublished /\ UNCHANGED <<boundary, ended, xvars, hvars>>
    \/ CliSend /\ UNCHANGED <<boundary, ended, xvars, hvars>>
    \/ CliRecv /\ UNCHANGED <<boundary, ended, xvars, hvars>>
    \/ CliConLost /\ UNCHANGED <<svars, ended, xvars, hvars>>
    \/ CliRetry /\ UNCHANGED <<svars, ended, xvars, hvars>>
    \/ \E s \in Sessions : SessEndBatch(s) /\ UNCHANGED <<boundary, cvars, ended, xvars>>
    \/ \E s \in Sessions :
          SessWrite(s, Len(response[s])) /\ UNCHANGED <<boundary, cvars, ended, xvars>>
    \/ \E s \in Sessions : SessError(s) /\ UNCHANGED <<boundary, cvars, ended, xvars>>
    \/ \E s \in Sessions : SessStop(s) /\ UNCHANGED <<boundary, cvars, ended, xvars>>
    \/ \E seen \in SUBSET Addrs : ScavTick(seen) /\ UNCHANGED <<boundary, cvars, ended, xvars>>
    \/ CliAdvance /\ UNCHANGED <<ended, xvars, hvars>>

SpecClient == Init /\ [][NextClient]_vars

\* --------------------------------------- the client's queue and its retries
\* what callers submit through Resolver::send
RetryCalls == ClientCalls \cup {Req("Resolve", <<PA>>)}

\* Resolver::send: self.0.unbounded_send((m, tx))
Enqueue(m) ==
    /\ ~c_dropped
    /\ Len(c_enq) < MaxCalls
    /\ c_enq' = Append(c_enq, m)
    /\ UNCHANGED <<reachable, c_dropped, c_replies, c_tries>>

\* the last Resolver handle is dropped, and with it the last sender of the queue
DropHandles ==
    /\ ~c_dropped
    /\ c_dropped' = TRUE
    /\ UNCHANGED <<reachable, c_enq, c_replies, c_tries>>

\* receiver.next() yields the newest item of the queue
QueueNext_Newest == c_enq[Len(c_enq)]

\* receiver.next(): the oldest item of the queue not yet taken
QueueNext == c_enq[c_calls + 1]

\* connection: the reply is Published whatever was read
Reply_Published(r, m) == Published

\* connection: `break FromResolver::Published` and `Some(Ok(r)) => break r`:
\* the r that reply.send(r) hands to the caller of request m
Reply(r, m) == IF r = Published THEN Published ELSE r

\* connection: M::Msg((m, reply)) taken off the queue
RetryMsg ==
    /\ c_calls < Len(c_enq)
    /\ CliMsg(QueueNext)
    /\ c_tries' = 0
    /\ UNCHANGED <<reachable, c_dropped, c_enq, c_replies>>

\* connection: M::Stop, receiver.next() is None: the queue is empty and every
\* sender is gone
RetryStop ==
    /\ c_dropped
    /\ c_calls = Len(c_enq)
    /\ CliStop
    /\ UNCHANGED hvars

\* connect: TcpStream::connect succeeds
RetryTcpConnect ==
    /\ reachable
    /\ CliTcpConnect
    /\ UNCHANGED hvars

\* connect: try_cont!("connect", TcpStream::connect(&addr).await) fails, and
\* another turn of the loop after the backoff
RetryConnectFail ==
    /\ ~reachable
    /\ c_pc = "connect"
    /\ UNCHANGED cvars

\* connection: c.send(m_r.clone())
RetrySend ==
    /\ CliSend
    /\ c_tries' = c_tries + 1
    /\ UNCHANGED <<reachable, c_dropped, c_enq, c_replies>>

\* connection: c.next() yields r, and reply.send(r)
RetryRecv ==
    /\ CliRecv
    /\ c_replies' = Append(c_replies,
                           [req |-> c_msg, resp |-> Reply(wire[c_con][1], c_msg)])
    /\ UNCHANGED <<reachable, c_dropped, c_enq, c_tries>>

\* the network between the client and the resolver goes down, or comes back
NetChange ==
    /\ reachable' = ~reachable
    /\ UNCHANGED <<c_dropped, c_enq, c_replies, c_tries>>

\* the other variables of the client
tvars == <<c_pc, c_con, c_tcp, c_published, c_msg, c_why, c_loop, c_calls,
           c_stalls, c_adv>>

\* the steps of the client's connection task
ClientStep ==
    \/ RetryMsg /\ UNCHANGED <<svars, ended, xvars>>
    \/ RetryStop /\ UNCHANGED <<svars, ended, xvars>>
    \/ RetryTcpConnect /\ UNCHANGED <<boundary, ended, xvars>>
    \/ RetryConnectFail /\ UNCHANGED <<svars, ended, xvars>>
    \/ CliHello /\ UNCHANGED <<boundary, ended, xvars, hvars>>
    \/ CliRepublish /\ UNCHANGED <<boundary, ended, xvars, hvars>>
    \/ CliRepublished /\ UNCHANGED <<boundary, ended, xvars, hvars>>
    \/ RetrySend /\ UNCHANGED <<boundary, ended, xvars>>
    \/ RetryRecv /\ UNCHANGED <<boundary, ended, xvars>>
    \/ CliConLost /\ UNCHANGED <<svars, ended, xvars, hvars>>
    \/ CliRetry /\ UNCHANGED <<svars, ended, xvars, hvars>>

\* the steps of a session's task that need nothing from its peer
ServerStep(s) ==
    \/ SessEndBatch(s) /\ UNCHANGED <<boundary, cvars, ended, xvars>>
    \/ SessWrite(s, Len(response[s])) /\ UNCHANGED <<boundary, cvars, ended, xvars>>

\* The client's queue and its retries, with no timer due: callers enqueue
\* requests and drop their handles, connections fail and the network comes and
\* goes.
NextRetry ==
    \/ \E m \in RetryCalls : Enqueue(m) /\ UNCHANGED <<svars, ended, xvars, tvars>>
    \/ DropHandles /\ UNCHANGED <<svars, ended, xvars, tvars>>
    \/ NetChange /\ UNCHANGED <<svars, ended, xvars, tvars>>
    \/ ClientStep
    \/ \E s \in Sessions : ServerStep(s)
    \/ \E s \in Sessions : SessWrite(s, 0) /\ UNCHANGED <<boundary, cvars, ended, xvars>>
    \/ \E s \in Sessions : SessError(s) /\ UNCHANGED <<boundary, cvars, ended, xvars>>

\* The executor runs a task that can take a step: the client's task and each
\* session's task are not left waiting forever. Nothing is assumed of the
\* network or of the callers.
SpecRetry ==
    /\ Init
    /\ [][NextRetry]_vars
    /\ WF_vars(ClientStep)
    /\ \A s \in Sessions : WF_vars(ServerStep(s))

\* ------------------------------------------------- the scavenger running late
\* writers with a ttl shorter than the scavenger's period, spread over the
\* endpoints
ScavHellosOf(s) ==
    {HelloRW(ScavengerPeriod \div 2, ((s - 1) % Cardinality(Addrs)) + 1)}
ScavRequests == {Req("Resolve", <<PA>>), Req("Publish", <<PA>>)}

\* The server on a network that does not fail, for MaxTicks periods of the
\* scavenger, whose task may be run after the instant its tick was due.
NextScav ==
    \/ Accept /\ UNCHANGED <<boundary, cvars, ended, xvars>>
    \/ \E s \in Sessions : \E h \in ScavHellosOf(s) :
          SessHello(s, h, TRUE) /\ UNCHANGED <<boundary, cvars, ended, xvars>>
    \/ \E s \in Sessions, m \in ScavRequests :
          batch[s] = <<>> /\ SessLine(s, m) /\ UNCHANGED <<boundary, cvars, ended, xvars>>
    \/ \E s \in Sessions : SessEndBatch(s) /\ UNCHANGED <<boundary, cvars, ended, xvars>>
    \/ \E s \in Sessions :
          SessWrite(s, Len(response[s])) /\ UNCHANGED <<boundary, cvars, ended, xvars>>
    \/ \E s \in Sessions : SessBatchDone(s) /\ UNCHANGED <<boundary, cvars, ended, xvars>>
    \/ \E s \in Sessions : SessStop(s) /\ UNCHANGED <<boundary, cvars, ended, xvars>>
    \/ \E seen \in SUBSET Addrs : ScavTick(seen) /\ UNCHANGED <<boundary, cvars, ended, xvars>>
    \/ AdvanceUpTo(MaxTicks * ScavengerPeriod) /\ UNCHANGED <<boundary, cvars, ended, xvars>>

SpecScav == Init /\ [][NextScav]_vars

\* ----------------------------------------------------------------- Batched
\* BatchItem, and the other two results of a poll
InBatch(v) == [kind |-> "InBatch", item |-> v]
EndBatch == [kind |-> "EndBatch", item |-> 0]
PollPending == [kind |-> "Pending", item |-> 0]
PollNone == [kind |-> "None", item |-> 0]

\* what a poll of the inner stream may return: its next item, the end of the
\* stream, or not ready
InnerPolls == {"item", "none", "pending"}

\* poll_next emitting EndBatch when the inner stream is not ready, whether or
\* not an item was taken since the last one
BatchedPollNext_EagerEnd(e, current, max, inner, v) ==
    IF e
    THEN [ended |-> TRUE, current |-> current, polled |-> FALSE, out |-> PollNone]
    ELSE IF current >= max
    THEN [ended |-> FALSE, current |-> 0, polled |-> FALSE, out |-> EndBatch]
    ELSE IF inner = "item"
    THEN [ended |-> FALSE, current |-> current + 1, polled |-> TRUE,
          out |-> InBatch(v)]
    ELSE IF inner = "none"
    THEN [ended |-> TRUE, current |-> 0, polled |-> TRUE,
          out |-> IF current = 0 THEN PollNone ELSE EndBatch]
    ELSE [ended |-> FALSE, current |-> 0, polled |-> TRUE, out |-> EndBatch]

\* poll_next reporting the end of the stream as soon as the inner stream
\* ends, whatever was accumulated
BatchedPollNext_DropsAtEnd(e, current, max, inner, v) ==
    IF e
    THEN [ended |-> TRUE, current |-> current, polled |-> FALSE, out |-> PollNone]
    ELSE IF current >= max
    THEN [ended |-> FALSE, current |-> 0, polled |-> FALSE, out |-> EndBatch]
    ELSE IF inner = "item"
    THEN [ended |-> FALSE, current |-> current + 1, polled |-> TRUE,
          out |-> InBatch(v)]
    ELSE IF inner = "none"
    THEN [ended |-> TRUE, current |-> 0, polled |-> TRUE, out |-> PollNone]
    ELSE [ended |-> FALSE, current |-> 0, polled |-> TRUE,
          out |-> IF current = 0 THEN PollPending ELSE EndBatch]

\* Batched::poll_next on a Batched with fields ended (e), current and max; `inner`
\* is what the inner stream returns if it is polled, v its next item
BatchedPollNext(e, current, max, inner, v) ==
    IF e
    THEN [ended |-> TRUE, current |-> current, polled |-> FALSE, out |-> PollNone]
    ELSE IF current >= max
    THEN [ended |-> FALSE, current |-> 0, polled |-> FALSE, out |-> EndBatch]
    ELSE IF inner = "item"
    THEN [ended |-> FALSE, current |-> current + 1, polled |-> TRUE,
          out |-> InBatch(v)]
    ELSE IF inner = "none"
    THEN [ended |-> TRUE, current |-> 0, polled |-> TRUE,
          out |-> IF current = 0 THEN PollNone ELSE EndBatch]
    ELSE [ended |-> FALSE, current |-> 0, polled |-> TRUE,
          out |-> IF current = 0 THEN PollPending ELSE EndBatch]

\* Batched::new(stream, max)
BatchedNew(max) ==
    /\ b_max = 0
    /\ b_max' = max
    /\ b_ended' = FALSE
    /\ b_current' = 0
    /\ UNCHANGED <<b_inner, b_given, b_out>>

\* one call of poll_next; the inner stream yields MaxItems items at most and
\* is not polled again by this model once it has returned its end
PollNext(inner) ==
    /\ b_max > 0
    /\ Len(b_out) < MaxPolls
    /\ inner = "item" => b_given < MaxItems
    /\ b_inner = "ended" => inner = "none"
    /\ LET res == BatchedPollNext(b_ended, b_current, b_max, inner, b_given + 1)
       IN /\ b_ended' = res.ended
          /\ b_current' = res.current
          /\ b_out' = Append(b_out, res.out)
          /\ b_given' = IF res.polled /\ inner = "item" THEN b_given + 1 ELSE b_given
          /\ b_inner' = IF res.polled /\ inner = "none" THEN "ended" ELSE b_inner
    /\ UNCHANGED b_max

\* A Batched made with a max of 1 or more (handle_client gives 10000) and
\* polled, over every way its inner stream can answer.
NextBatched ==
    \/ \E max \in 1..MaxMax :
          BatchedNew(max) /\ UNCHANGED <<svars, cvars, ended, server, signalled, lvars, kvars, qvars>>
    \/ \E inner \in InnerPolls :
          PollNext(inner) /\ UNCHANGED <<svars, cvars, ended, server, signalled, lvars, kvars, qvars>>

SpecBatched == Init /\ [][NextBatched]_vars

\* ------------------------------------------------------ the order of locking
\* The tasks: the scavenger (0), the sessions, and the accept loop.
AcceptTask == MaxSessions + 1
LockTasks == 0..AcceptTask

\* What a task does to the locks, in the order of the code: take the context
\* lock shared ("read") or exclusive ("write"), take ("lock") and drop
\* ("unlock") the Mutex of record rec, drop the context lock ("release"), and
\* await the socket ("await").
Op(op, rec) == [op |-> op, rec |-> rec]

\* handle_client: the hello of a known write_addr (lines 178-192)
HelloKnownOps(r) ==
    <<Op("read", 0), Op("lock", r), Op("unlock", r), Op("release", 0), Op("await", 0)>>

\* handle_client: the hello of an unknown write_addr (lines 178-182, 192)
HelloNewOps == <<Op("read", 0), Op("release", 0), Op("await", 0)>>

\* handle_client: EndBatch of a batch that needs the write lock (lines 217-239,
\* 256-258)
WriteBatchOps(r) ==
    <<Op("write", 0), Op("lock", r), Op("unlock", r), Op("release", 0), Op("await", 0)>>

\* EndBatch of a batch of reads taking the record before the context lock
ReadBatchOps_RecordFirst(r) ==
    <<Op("lock", r), Op("read", 0), Op("unlock", r), Op("release", 0), Op("await", 0)>>

\* handle_client: EndBatch of a batch of reads (lines 241-258)
ReadBatchOps(r) ==
    <<Op("read", 0), Op("lock", r), Op("unlock", r), Op("release", 0), Op("await", 0)>>

\* start_client: ctx.0.write().unwrap().stops.remove(&client), and accept_loop:
\* t.0.write().unwrap().stops.make()
StopsOps == <<Op("write", 0), Op("release", 0)>>

\* client_scavenger: M::Tick, the records of recs checked one after the other
RECURSIVE CheckOps(_)
CheckOps(recs) ==
    IF recs = {} THEN <<>>
    ELSE LET r == CHOOSE x \in recs : \A y \in recs : x <= y
         IN <<Op("lock", r), Op("unlock", r)>> \o CheckOps(recs \ {r})

TickOps(recs) == <<Op("write", 0)>> \o CheckOps(recs) \o <<Op("release", 0)>>

\* what task t may set out to do when it holds no lock
OpsOf(t) ==
    IF t = 0 THEN {TickOps(recs) : recs \in SUBSET RecIds}
    ELSE IF t = AcceptTask THEN {StopsOps}
    ELSE {HelloNewOps, StopsOps}
         \cup {HelloKnownOps(r) : r \in RecIds}
         \cup {WriteBatchOps(r) : r \in RecIds}
         \cup {ReadBatchOps(r) : r \in RecIds}

\* RwLock and Mutex: the operation o of task t need not wait
Granted(t, o) ==
    CASE o.op = "read" -> \A u \in LockTasks \ {t} : l_outer[u] # "write"
      [] o.op = "write" -> \A u \in LockTasks \ {t} : l_outer[u] = "none"
      [] o.op = "lock" -> l_mutex[o.rec] = -1
      [] OTHER -> TRUE

\* task t, holding nothing, sets out on one of the sections of its code
LockStart(t, ops) ==
    /\ l_prog[t] = <<>>
    /\ ops \in OpsOf(t)
    /\ l_prog' = [l_prog EXCEPT ![t] = ops]
    /\ UNCHANGED <<l_outer, l_mutex>>

\* task t does its next operation, once it is granted
LockStep(t) ==
    /\ l_prog[t] # <<>>
    /\ LET o == Head(l_prog[t]) IN
       /\ Granted(t, o)
       /\ l_prog' = [l_prog EXCEPT ![t] = Tail(@)]
       /\ l_outer' = IF o.op \in {"read", "write"} THEN [l_outer EXCEPT ![t] = o.op]
                     ELSE IF o.op = "release" THEN [l_outer EXCEPT ![t] = "none"]
                     ELSE l_outer
       /\ l_mutex' = IF o.op = "lock" THEN [l_mutex EXCEPT ![o.rec] = t]
                     ELSE IF o.op = "unlock" THEN [l_mutex EXCEPT ![o.rec] = -1]
                     ELSE l_mutex

\* The tasks of the server as takers of locks: each runs the locked sections
\* of its code over and over, any record being the one a session holds.
NextOrder ==
    \/ \E t \in LockTasks : \E ops \in OpsOf(t) :
          LockStart(t, ops) /\ UNCHANGED <<svars, cvars, ended, server, signalled, bvars, kvars, qvars>>
    \/ \E t \in LockTasks :
          LockStep(t) /\ UNCHANGED <<svars, cvars, ended, server, signalled, bvars, kvars, qvars>>

SpecOrder == Init /\ [][NextOrder]_vars

\* ------------------------------------------------------ the server's shutdown
\* what the sessions are sent while the server is being shut down
StopHellos == {HelloRO, HelloRW(ScavengerPeriod \div 2, 1)}
StopRequests == {Req("Resolve", <<PA>>), Req("Publish", <<PA>>)}

\* Drop for Server: the stop of the accept loop is sent
ServerDrop ==
    /\ server = "up"
    /\ server' = "dropped"
    /\ UNCHANGED <<svars, cvars, ended, signalled, bvars, lvars, kvars, qvars>>

\* Stops::stop: every sender held is drained and sent ()
StopsStop == signalled \cup stops

\* accept_loop: M::Stop => break, then t.0.write().unwrap() and ctx.stops.stop();
\* the unwrap panics if the lock is poisoned
AcceptStop ==
    /\ server = "dropped"
    /\ CanLock(0, "write")
    /\ IF poisoned
       THEN /\ server' = "panicked"
            /\ UNCHANGED <<stops, signalled>>
       ELSE /\ server' = "stopped"
            /\ signalled' = StopsStop
            /\ stops' = {}
    /\ UNCHANGED <<published, clients, info, stop_id, poisoned, pc, hello, client,
                   client_added, batch, batch_needs_write_lock, response, stopsig,
                   clock, nextTick, scav, server_hello, wire, done, live, acked,
                   folded, boundary, cvars, ended, bvars, lvars, kvars, qvars>>

\* handle_client: M::Stop of server_stop, as the first item (return Ok(())) or
\* in a batch (break)
SessServerStop(s) ==
    /\ pc[s] \in {"hello", "running"}
    /\ s \in signalled
    /\ Returns(s, info, stopsig)
    /\ UNCHANGED <<stop_id, poisoned, clock, nextTick, scav, live, acked, boundary,
                   cvars, ended, xvars>>

\* client_scavenger: M::Stop => break
ScavStop ==
    /\ scav = "running"
    /\ 0 \in signalled
    /\ scav' = "stopped"
    /\ UNCHANGED <<published, clients, info, stops, stop_id, poisoned, pc, hello,
                   client, client_added, batch, batch_needs_write_lock, response,
                   stopsig, clock, nextTick, server_hello, wire, done, live, acked,
                   folded, boundary, cvars, ended, xvars>>

\* the steps a session's task takes by itself
StopStep(s) ==
    \/ SessEndBatch(s) /\ UNCHANGED <<boundary, cvars, ended, xvars>>
    \/ SessWrite(s, Len(response[s])) /\ UNCHANGED <<boundary, cvars, ended, xvars>>
    \/ SessBatchDone(s) /\ UNCHANGED <<boundary, cvars, ended, xvars>>

\* The server until and after its Server value is dropped; the accept loop
\* accepts no connection once it has left its loop.
NextStop ==
    \/ server \in {"up", "dropped"} /\ Accept /\ UNCHANGED <<boundary, cvars, ended, xvars>>
    \/ \E s \in Sessions : \E h \in StopHellos :
          SessHello(s, h, TRUE) /\ UNCHANGED <<boundary, cvars, ended, xvars>>
    \/ \E s \in Sessions, m \in StopRequests :
          batch[s] = <<>> /\ SessLine(s, m) /\ UNCHANGED <<boundary, cvars, ended, xvars>>
    \/ \E s \in Sessions : StopStep(s)
    \/ \E s \in Sessions : SessStop(s) /\ UNCHANGED <<boundary, cvars, ended, xvars>>
    \/ \E seen \in SUBSET Addrs : ScavTick(seen) /\ UNCHANGED <<boundary, cvars, ended, xvars>>
    \/ Advance /\ UNCHANGED <<boundary, cvars, ended, xvars>>
    \/ ServerDrop
    \/ AcceptStop
    \/ \E s \in Sessions : SessServerStop(s)
    \/ ScavStop

\* The executor runs every task that can take a step, and a select of two
\* streams takes from each in turn, so that a stop that was sent is taken.
SpecStop ==
    /\ Init
    /\ [][NextStop]_vars
    /\ WF_server(AcceptStop)
    /\ WF_scav(ScavStop)
    /\ \A s \in Sessions :
          WF_pc(StopStep(s)) /\ SF_pc(SessServerStop(s)) /\ SF_pc(SessStop(s))

\* ------------------------------------------------------- connect's backoff
\* connect: the sleep is of a second whatever backoff holds
SleepFor_One(backoff) == 1

\* connect: task::sleep(Duration::from_secs(backoff))
SleepFor(backoff) == backoff

\* connect is called by connection: let mut backoff = 0
ConnectCall ==
    /\ k_pc \in {"idle", "done"}
    /\ k_pc' = "top"
    /\ k_backoff' = 0
    /\ k_log' = <<>>
    /\ k_fails' = <<>>

\* connect: a turn of the loop with backoff = 0: no sleep, backoff += 1 and
\* the attempt begins with TcpStream::connect
ConnectAtOnce ==
    /\ k_pc = "top"
    /\ k_backoff = 0
    /\ k_backoff' = k_backoff + 1
    /\ k_log' = Append(k_log, 0)
    /\ k_pc' = "tcp"
    /\ UNCHANGED k_fails

\* connect: a turn of the loop with backoff > 0: the task sleeps
ConnectSleep ==
    /\ k_pc = "top"
    /\ k_backoff > 0
    /\ k_pc' = "sleep"
    /\ UNCHANGED <<k_backoff, k_log, k_fails>>

\* connect: the sleep is over, backoff += 1 and the attempt begins
ConnectWake ==
    /\ k_pc = "sleep"
    /\ k_backoff' = k_backoff + 1
    /\ k_log' = Append(k_log, SleepFor(k_backoff))
    /\ k_pc' = "tcp"
    /\ UNCHANGED k_fails

\* the stage of an attempt that follows stage st when st succeeds; the hello
\* read yields ServerHello { ttl_expired }
StageAfter(st, ttl_expired) ==
    CASE st = "tcp" -> "hello"
      [] st = "hello" -> "read"
      [] st = "read" -> IF ttl_expired THEN "republish" ELSE "done"
      [] st = "republish" -> "republished"
      [] st = "republished" -> "done"

ConnectStages == {"tcp", "hello", "read", "republish", "republished"}

\* connect: a stage of the attempt succeeds: TcpStream::connect, the hello
\* sent, the ServerHello read, the republish sent, Published read
ConnectOk(ttl_expired) ==
    /\ k_pc \in ConnectStages
    /\ k_pc' = StageAfter(k_pc, ttl_expired)
    /\ UNCHANGED <<k_backoff, k_log, k_fails>>

\* connect: a stage of the attempt fails (try_cont!, None | Some(Err(_)), or
\* an answer to the republish other than Published): another turn of the loop
ConnectFail ==
    /\ k_pc \in ConnectStages
    /\ Len(k_fails) < MaxFails
    /\ k_fails' = Append(k_fails, k_pc)
    /\ k_pc' = "top"
    /\ UNCHANGED <<k_backoff, k_log>>

\* One call of connect after another, each stage of each attempt failing or
\* succeeding as the network and the server decide.
NextBackoff ==
    \/ ConnectCall /\ UNCHANGED <<svars, cvars, ended, server, signalled, bvars, lvars, qvars>>
    \/ ConnectAtOnce /\ UNCHANGED <<svars, cvars, ended, server, signalled, bvars, lvars, qvars>>
    \/ ConnectSleep /\ UNCHANGED <<svars, cvars, ended, server, signalled, bvars, lvars, qvars>>
    \/ ConnectWake /\ UNCHANGED <<svars, cvars, ended, server, signalled, bvars, lvars, qvars>>
    \/ \E e \in BOOLEAN :
          ConnectOk(e) /\ UNCHANGED <<svars, cvars, ended, server, signalled, bvars, lvars, qvars>>
    \/ ConnectFail /\ UNCHANGED <<svars, cvars, ended, server, signalled, bvars, lvars, qvars>>

SpecBackoff == Init /\ [][NextBackoff]_vars

\* ------------------------------------------ one session, cut into batches
CutHellos == {HelloRO} \cup {HelloRW(MaxTTL, a) : a \in Addrs}
CutRequests ==
    Requests \cup {Req("Publish", <<PA>>), Req("Unpublish", <<PB, PA>>)}

\* handle_client: BatchItem::EndBatch for a batch that holds the one request
\* m, on the state x of a session that said hello h and holds record r
ApplyOne(m, x, h, r, now) ==
    LET w == IsWrite(m)
        ci0 == Refresh(x.ci, now, w)
        res == RunBatch(<<m>>, [pub |-> x.pub, ci |-> ci0, resp |-> <<>>], w)
    IN IF ~x.open THEN x
       ELSE IF Rejected(w, x.added, h)
       THEN [x EXCEPT !.ci = ci0, !.open = FALSE]
       ELSE [pub |-> res.pub,
             cl |-> IF w /\ ~x.added THEN [x.cl EXCEPT ![h.write_addr] = r]
                    ELSE x.cl,
             ci |-> res.ci,
             added |-> x.added \/ w,
             open |-> TRUE]

\* a connection is accepted once the session before it has returned
CutAccept ==
    /\ \A s \in Sessions : ~Alive(s)
    /\ Accept
    /\ UNCHANGED qvars

\* the session says hello: the sequence of its requests starts here
CutHello(s, h) ==
    /\ SessHello(s, h, TRUE)
    /\ q_ref' = [pub |-> published', cl |-> clients', ci |-> info'[client'[s]],
                 added |-> client_added'[s], open |-> TRUE]
    /\ UNCHANGED q_lost

\* a request arrives, and is added to the batch being gathered
CutLine(s, m) ==
    /\ SessLine(s, m)
    /\ q_ref' = ApplyOne(m, q_ref, hello[s], client[s], clock)
    /\ UNCHANGED q_lost

\* One session at a time says hello and sends requests, which the stream cuts
\* into batches of any length up to MaxBatch; no timer is due meanwhile.
NextCut ==
    \/ CutAccept /\ UNCHANGED <<boundary, cvars, ended, server, signalled, bvars, lvars, kvars>>
    \/ \E s \in Sessions, h \in CutHellos :
          CutHello(s, h) /\ UNCHANGED <<boundary, cvars, ended, server, signalled, bvars, lvars, kvars>>
    \/ \E s \in Sessions, m \in CutRequests :
          CutLine(s, m) /\ UNCHANGED <<boundary, cvars, ended, server, signalled, bvars, lvars, kvars>>
    \/ \E s \in Sessions : SessEndBatch(s) /\ UNCHANGED <<boundary, cvars, ended, xvars>>
    \/ \E s \in Sessions :
          SessWrite(s, Len(response[s])) /\ UNCHANGED <<boundary, cvars, ended, xvars>>
    \/ \E s \in Sessions : SessBatchDone(s) /\ UNCHANGED <<boundary, cvars, ended, xvars>>
    \/ \E s \in Sessions : SessError(s) /\ batch[s] = <<>> /\ UNCHANGED <<boundary, cvars, ended, xvars>>

SpecCut == Init /\ [][NextCut]_vars

\* ------------------------------------------- a session ended in mid-batch
AbortHellos == {HelloRO, HelloRW(ScavengerPeriod \div 2, 1)}
AbortRequests == {Req("Publish", <<PB, PA>>), Req("Unpublish", <<PA>>)}

\* handle_client: a line that does not decode (`?` returns Err), or
\* InBatch(M::Stop) => break, while `batch` holds what was gathered so far
AbortLost(s) ==
    /\ pc[s] = "running"
    /\ q_lost' = batch[s]
    /\ UNCHANGED q_ref

\* Sessions whose streams fail or are stopped at any point of a batch of up
\* to MaxBatch requests, by the scavenger or by a later hello for their
\* record.
NextAbort ==
    \/ Accept /\ UNCHANGED <<boundary, cvars, ended, xvars>>
    \/ \E s \in Sessions : \E h \in AbortHellos :
          SessHello(s, h, TRUE) /\ UNCHANGED <<boundary, cvars, ended, xvars>>
    \/ \E s \in Sessions, m \in AbortRequests :
          SessLine(s, m) /\ UNCHANGED <<boundary, cvars, ended, xvars>>
    \/ \E s \in Sessions : SessEndBatch(s) /\ UNCHANGED <<boundary, cvars, ended, xvars>>
    \/ \E s \in Sessions :
          SessWrite(s, Len(response[s])) /\ UNCHANGED <<boundary, cvars, ended, xvars>>
    \/ \E s \in Sessions : SessBatchDone(s) /\ UNCHANGED <<boundary, cvars, ended, xvars>>
    \/ \E s \in Sessions :
          /\ SessError(s) /\ AbortLost(s)
          /\ UNCHANGED <<boundary, cvars, ended, server, signalled, bvars, lvars, kvars>>
    \/ \E s \in Sessions :
          /\ SessStop(s) /\ AbortLost(s)
          /\ UNCHANGED <<boundary, cvars, ended, server, signalled, bvars, lvars, kvars>>
    \/ \E seen \in SUBSET Addrs : ScavTick(seen) /\ UNCHANGED <<boundary, cvars, ended, xvars>>
    \/ Advance /\ UNCHANGED <<boundary, cvars, ended, xvars>>

SpecAbort == Init /\ [][NextAbort]_vars

\* ------------------------------------------------------------------ claims
TickRuns == nextTick' # nextTick
Closes(s) == Alive(s) /\ pc'[s] = "closed"
SaysHello(s) == pc[s] = "hello" /\ pc'[s] = "running"
Executes(s) == pc[s] = "running" /\ pc'[s] = "writing"
Registered == {a \in Addrs : clients[a] # 0}

\* C1: once a session has written the responses of a batch, the i-th response
\* on the wire is the answer to the i-th request of the batch.
C1_ResponsesInRequestOrder ==
    \A s \in Sessions :
       pc[s] = "flushed"
       => \A i \in 1..Len(wire[s]) : wire[s][i] = done[s][i].resp

\* C2: a registered writer whose record is older than its ttl at a scavenger
\* tick is out of the registry after that tick, and the directory maps no path
\* to its write_addr.
C2_ExpiredWriterGone ==
    [][\A a \in Registered :
          (TickRuns /\ nextTick - info[clients[a]].last > info[clients[a]].ttl)
          => (clients'[a] = 0 /\ PathsOf(published', a) = {})]_vars

\* C3: while the client's connection task runs and has been served whenever a
\* timer of its was due, no scavenger tick takes a path out of the directory.
C3_IdleWriterKeepsPaths ==
    [][(c_pc # "stopped" /\ c_stalls = 0 /\ TickRuns)
       => published' = published]_vars

\* C4: when the server has answered the republish that follows a ServerHello
\* with ttl_expired = true, the paths the directory maps to the client's
\* write_addr are the paths the client had advertised: those of its
\* acknowledged publish calls that no acknowledged unpublish call took back.
C4_RepublishRestoresAdvertised ==
    (c_pc = "republished" /\ pc[c_tcp] = "flushed" /\ wire[c_tcp][1] = Published)
    => PathsOf(published, WriteAddr) = c_adv

\* C5: every path in the published set of a registered record is in the
\* directory under the record's write_addr, and every directory entry belongs
\* to the published set of a registered record.
C5_RegistryMatchesDirectory ==
    /\ \A a \in Registered :
          \A p \in info[clients[a]].published :
             InSeq(published[p], info[clients[a]].addr)
    /\ \A p \in AllPaths :
          \A e \in Range(published[p]) :
             \E a \in Registered :
                info[clients[a]].addr = e /\ p \in info[clients[a]].published

\* what a Resolve or List m returns when run on store st
ReadOf(st, m) ==
    IF m.op = "Resolve" THEN Resolved(StoreResolve(st, m.paths[1]))
    ELSE Listed(StoreList(st, m.paths[1]))

\* the store once session o has run the rest of its batch
PostOf(o) ==
    RunBatch(batch[o], [pub |-> published, ci |-> info[client[o]], resp |-> <<>>],
             TRUE).pub

\* C6: a Resolve or List run by a session in a read batch returns what the
\* store held when the last write batch finished, or what it will hold when a
\* write batch now under way in another session has finished: never the store
\* of a write batch half-way.
C6_ReadersSeeWholeBatches ==
    [][\A s \in Sessions :
          (pc[s] = "locked" /\ ~batch_needs_write_lock[s]
             /\ Len(done'[s]) = Len(done[s]) + 1)
          => LET m == Head(batch[s])
                 got == done'[s][Len(done'[s])].resp
             IN \/ got = ReadOf(boundary, m)
                \/ \E o \in Sessions \ {s} :
                      /\ pc[o] = "locked"
                      /\ batch_needs_write_lock[o]
                      /\ got = ReadOf(PostOf(o), m)]_vars

\* C6 witness: a session has run a write batch of two write requests that
\* left a path published and another unpublished again, and another session,
\* inside its read batch, has resolved a path against the store that batch left
C6_Witness ==
    \E s, o \in Sessions :
       /\ s # o
       /\ pc[o] = "writing"
       /\ Len(done[o]) = 2
       /\ done[o][1].req.op = "Publish"
       /\ done[o][2].req.op = "Unpublish"
       /\ pc[s] = "locked"
       /\ ~batch_needs_write_lock[s]
       /\ Len(done[s]) = 2
       /\ done[s][1].req.op = "List"
       /\ done[s][1].resp = Listed(<<PB>>)
       /\ done[s][2].req.op = "Resolve"
       /\ done[s][2].resp = Resolved(<<>>)
       /\ boundary = published
       /\ PathsOf(boundary, hello[o].write_addr) = {PB}

\* C7: a Resolve(p) executed while Publish(p) by endpoint e stands acknowledged
\* (no Unpublish of p by e and no timeout of e's record since) returns e.
C7_AckedPathResolves ==
    [][\A s \in Sessions :
          Executes(s) =>
             \A i \in 1..Len(done'[s]) :
                done'[s][i].req.op = "Resolve" =>
                   \A pa \in acked \cap acked' :
                      pa[1] = done'[s][i].req.paths[1]
                      => InSeq(done'[s][i].resp.addrs, pa[2])]_vars

\* C7 witness: a session other than the publisher's got the acknowledged
\* endpoint back from Resolve
C7_Witness ==
    \E s \in Sessions :
       /\ pc[s] = "flushed"
       /\ done[s][1].req.op = "Resolve"
       /\ \E pa \in acked :
             /\ pa[1] = done[s][1].req.paths[1]
             /\ InSeq(wire[s][1].addrs, pa[2])
             /\ info[client[s]].addr # pa[2]

\* C8: for the only session of a writer that started from an empty directory,
\* with no timeout of its record, the paths the directory maps to its endpoint
\* are the union/difference fold of its Publish and Unpublish requests, and so
\* is the published set of its record.
C8_DirectoryIsFold ==
    \A s \in Sessions :
       (pc[s] \in {"running", "writing", "flushed"} /\ folded[s].valid)
       => /\ PathsOf(published, hello[s].write_addr) = folded[s].paths
          /\ info[client[s]].published = folded[s].paths

\* C8 witness: a Publish of two paths and an Unpublish of one of them folded
C8_Witness ==
    \E s \in Sessions :
       /\ pc[s] = "running"
       /\ folded[s].valid
       /\ folded[s].paths = {PB}
       /\ PathsOf(published, hello[s].write_addr) = {PB}

\* C9: the ServerHello of a ReadWrite hello carries ttl_expired = false exactly
\* when the registry holds a record for the write_addr at hello time; that
\* record then becomes the session's, keeps its published set and has its last
\* set to now.
C9_TtlExpiredIffNoRecord ==
    [][\A s \in Sessions :
          (SaysHello(s) /\ hello'[s].kind = "ReadWrite") =>
             LET r == clients[hello'[s].write_addr] IN
             IF r # 0
             THEN /\ server_hello'[s] = <<FALSE>>
                  /\ client'[s] = r
                  /\ info'[r].published = info[r].published
                  /\ info'[r].last = clock
             ELSE server_hello'[s] = <<TRUE>>]_vars

\* C9 witness: a session was told ttl_expired = false and holds a record with
\* paths; another was told ttl_expired = true
C9_Witness ==
    /\ \E s \in Sessions :
          /\ pc[s] = "running"
          /\ hello[s].kind = "ReadWrite"
          /\ server_hello[s] = <<FALSE>>
          /\ info[client[s]].published # {}
    /\ \E s \in Sessions :
          pc[s] = "running" /\ server_hello[s] = <<TRUE>>

\* C10: a session that closes leaves the directory, the registry and the
\* published sets of the registered records as they are; a record leaves the
\* registry only at a tick later than last + ttl; and a hello for a registered
\* write_addr gets ttl_expired = false with the directory left as it is.
C10_CloseKeepsAdvertisements ==
    [][/\ \A s \in Sessions :
             Closes(s) =>
                /\ published' = published
                /\ clients' = clients
                /\ \A a \in Registered :
                      info'[clients[a]].published = info[clients[a]].published
       /\ \A a \in Registered :
             clients'[a] = 0
             => (TickRuns /\ nextTick - info[clients[a]].last > info[clients[a]].ttl)
       /\ \A s \in Sessions :
             (SaysHello(s) /\ hello'[s].kind = "ReadWrite"
                /\ clients[hello'[s].write_addr] # 0)
             => /\ server_hello'[s] = <<FALSE>>
                /\ published' = published
                /\ client'[s] = clients[hello'[s].write_addr]]_vars

\* C10 witness: the session that created a record is closed, the record is
\* still registered with its paths in the directory, and a later session of
\* the same write_addr was told ttl_expired = false
C10_Witness ==
    \E s, t \in Sessions :
       /\ s # t
       /\ pc[s] = "closed"
       /\ pc[t] = "running"
       /\ server_hello[t] = <<FALSE>>
       /\ client[t] = s
       /\ clients[hello[t].write_addr] = s
       /\ info[s].published # {}
       /\ PathsOf(published, hello[t].write_addr) = info[s].published

\* C11: when the server holds no record of the writer (it was scavenged), the
\* hello of the client's next connection is answered ttl_expired = true and the
\* client goes on to send Publish(published) on it; a connection becomes the
\* one used for callers' requests only on a hello answered ttl_expired = false
\* or on Published read in answer to that republish; and a line reaches a
\* session only as the republish of connect or as the caller's request on the
\* connection in use.
RepublishMsg == Req("Publish", SetToSortedSeq(c_published))

C11_RepublishBeforeRequests ==
    [][/\ (c_pc = "hello" /\ pc'[c_tcp] = "running" /\ clients[WriteAddr] = 0)
            => /\ server_hello'[c_tcp] = <<TRUE>>
               /\ c_pc' = "republish"
               /\ c_con' = c_con
       /\ (c_con' # c_con /\ c_con' # 0)
            => \/ c_pc = "hello" /\ c_con' = c_tcp /\ server_hello'[c_tcp] = <<FALSE>>
               \/ /\ c_pc = "republished" /\ c_con' = c_tcp
                  /\ server_hello[c_tcp] = <<TRUE>>
                  /\ wire[c_tcp] = <<Published>>
                  /\ done[c_tcp] = <<[req |-> RepublishMsg, resp |-> Published]>>
       /\ \A s \in Sessions :
            (batch'[s] # batch[s] /\ batch'[s] # <<>>)
            => \/ c_pc = "send" /\ s = c_con /\ batch'[s] = <<c_msg>>
               \/ c_pc = "republish" /\ s = c_tcp /\ s # c_con
                  /\ batch'[s] = <<RepublishMsg>>
      ]_vars

\* the client is about to send a caller's request on a later connection whose
\* hello said ttl_expired (the record that acknowledged its paths was scavenged),
\* its paths advertised again
C11_Witness ==
    /\ c_pc = "send"
    /\ c_con \in Sessions \ {1}
    /\ pc[c_con] = "running"
    /\ server_hello[c_con] = <<TRUE>>
    /\ c_published # {}
    /\ clients[WriteAddr] # 0
    /\ c_published \subseteq PathsOf(published, WriteAddr)

\* C12: each reply.send completes the reply slot of one more request, no slot
\* twice and none of a request not enqueued; the value delivered for a request
\* is the one response the server computed and wrote for that very request on
\* the connection in use.
Replied == c_replies' # c_replies

C12_ReplyIsOfThatRequest ==
    [][Replied =>
         /\ Len(c_replies') = Len(c_replies) + 1
         /\ SubSeq(c_replies', 1, Len(c_replies)) = c_replies
         /\ Len(c_replies') <= Len(c_enq)
         /\ Len(c_replies') = c_calls
         /\ LET e == c_replies'[Len(c_replies')]
            IN /\ e.req = c_enq[Len(c_replies')]
               /\ e.req = c_msg
               /\ c_pc = "await"
               /\ pc[c_con] = "flushed"
               /\ done[c_con] = <<[req |-> e.req, resp |-> e.resp]>>
               /\ wire[c_con] = <<e.resp>>
      ]_vars

\* two requests were answered, the second of another kind than the first
C12_Witness ==
    /\ Len(c_replies) >= 2
    /\ c_replies[1].req.op = "Publish"
    /\ c_replies[2].req.op = "Resolve"
    /\ c_replies[2].resp = Resolved(<<WriteAddr>>)

\* C13: when the send or the receive of a request fails, the client drops the
\* connection and connects again with the same request at hand, and what it
\* then sends is that request; the request at hand is let go of only by a
\* reply that carries a response the server wrote for it; and if the network
\* eventually stays up, every request enqueued is eventually answered (as far
\* as the server of the model accepts connections).
Failed == c_pc \in {"send", "await"} /\ c_pc' \notin {"send", "await", "wait"}

C13_RetrySafe ==
    /\ (Failed => c_con' = 0 /\ c_pc' = "connect" /\ c_msg' = c_msg)
    /\ ((c_pc = "send" /\ c_pc' = "await") => batch'[c_con] = <<c_msg>>)
    /\ ((c_msg # NoMsg /\ c_msg' # c_msg)
          => /\ c_msg' = NoMsg
             /\ Replied
             /\ pc[c_con] = "flushed"
             /\ done[c_con][1].req = c_msg
             /\ c_replies'[Len(c_replies')].resp = done[c_con][1].resp)

OldestUnanswered == c_enq[Len(c_replies) + 1]

C14_FifoOverReconnects ==
    [][/\ \A s \in Sessions :
            (c_pc = "send" /\ batch'[s] # batch[s])
            => /\ Len(c_replies) < Len(c_enq)
               /\ batch'[s] = <<OldestUnanswered>>
               /\ c_calls = Len(c_replies) + 1
       /\ Replied
            => /\ c_replies' = Append(c_replies, c_replies'[Len(c_replies')])
               /\ c_replies'[Len(c_replies')].req = OldestUnanswered
      ]_vars

\* two requests wait in the queue behind the one at hand, which is being sent
\* again on a second connection
C14_Witness ==
    /\ Len(c_enq) = 3
    /\ c_enq[1] # c_enq[2]
    /\ c_replies = <<>>
    /\ c_tries = 2
    /\ c_pc = "await"
    /\ c_con = 2

\* C20: once every handle of the client is dropped, its connection task
\* eventually exits, from whatever state it is in, the reconnect loop with the
\* server unreachable included (or the sessions of the model are used up).
C20_DroppedClientExits ==
    c_dropped ~> (c_pc = "stopped" \/ stop_id > MaxSessions)

\* C15: no step of a ReadOnly session changes the directory, the registry or a
\* record the registry holds; when its batch holds a Publish or an Unpublish,
\* the session's task returns at the lock, no request of the batch executed
\* and no response produced; and the registry never holds a record made for a
\* ReadOnly peer.
StepOf(s) ==
    \/ pc'[s] # pc[s]
    \/ batch'[s] # batch[s]
    \/ response'[s] # response[s]

RegistryKept ==
    /\ clients' = clients
    /\ \A a \in Addrs : clients[a] # 0 => info'[clients[a]] = info[clients[a]]

C15_ReadOnlyChangesNothing ==
    [][/\ \A s \in Sessions :
            (pc[s] \in {"running", "locked", "writing", "flushed"}
               /\ hello[s].kind = "ReadOnly" /\ StepOf(s))
            => /\ published' = published
               /\ RegistryKept
               /\ (pc[s] = "running" /\ batch'[s] = batch[s]
                     /\ batch_needs_write_lock[s])
                  => /\ pc'[s] = "closed"
                     /\ done[s] = <<>>
                     /\ response[s] = <<>>
       /\ \A a \in Addrs : clients'[a] # 0 => info'[clients'[a]].addr = a
      ]_vars

\* a ReadOnly session was closed at the lock for a batch with a write in it,
\* while a writer's path stands in the directory
C15_Witness ==
    \E s \in Sessions :
        /\ pc[s] = "closed"
        /\ ended[s] = [first |-> HelloRO, why |-> "batch"]
        /\ PathsOf(published, 1) = {PA}

\* C16: the ttl check refuses exactly the ttls outside 1..3600; a session whose
\* first message is missing, does not decode, or is a ReadWrite hello with a
\* ttl outside 1..3600 is closed by that step with no ServerHello written, no
\* request taken or executed, and the directory, the registry and its records
\* as they were; a ReadWrite hello with a ttl in 1..3600 and a ReadOnly hello
\* are answered.
Refused(f) ==
    \/ f.kind = "missing"
    \/ f.kind = "ReadWrite" /\ f.ttl \notin 1..MaxTTL

C16_HelloStep ==
    \A s \in Sessions :
        (pc[s] = "hello" /\ pc'[s] # "hello")
        => IF Refused(ended'[s].first)
           THEN /\ pc'[s] = "closed"
                /\ server_hello' = server_hello
                /\ wire' = wire
                /\ batch' = batch
                /\ published' = published
                /\ RegistryKept
           ELSE /\ pc'[s] = "running"
                /\ hello'[s] = ended'[s].first
                /\ server_hello'[s] \in {<<TRUE>>, <<FALSE>>}

C16_BadHelloClosesQuietly ==
    /\ \A ttl \in (0 - 2)..(MaxTTL + 2) : BadTtl(ttl) <=> ttl \notin 1..MaxTTL
    /\ [][C16_HelloStep]_vars

\* a hello with a ttl beyond the range was refused while a writer accepted
\* with the largest ttl has a path in the directory
C16_Witness ==
    /\ pc[1] = "running"
    /\ hello[1] = HelloRW(MaxTTL, 1)
    /\ PathsOf(published, 1) = {PA}
    /\ pc[2] = "closed"
    /\ ended[2] = [first |-> HelloRW(MaxTTL + 1, 1), why |-> "hello"]

\* C17: a Publish whose list holds the relative path a/b, executed, is answered
\* with an Error carrying the given text, and leaves the directory, the
\* writer's record and the registry as they were.
\* Its text is "publish relative path"; as claimed, the text is "relative path".
RelPublishAnswered(s, text) ==
    (/\ pc[s] = "locked" /\ batch[s] # <<>> /\ batch'[s] = Tail(batch[s])
     /\ Head(batch[s]).op = "Publish"
     /\ InSeq(Head(batch[s]).paths, REL))
    => /\ response'[s] = Append(response[s], Error(text))
       /\ done'[s] = Append(done[s], [req |-> Head(batch[s]), resp |-> Error(text)])
       /\ published' = published
       /\ info'[client[s]].published = info[client[s]].published
       /\ clients' = clients

C17_RelativePublishRefused ==
    [][\A s \in Sessions : RelPublishAnswered(s, "publish relative path")]_vars

C17_RelativePublishAsClaimed ==
    [][\A s \in Sessions : RelPublishAnswered(s, "relative path")]_vars

\* the writer's first request, Publish([/a, a/b]), was answered with the Error
\* and /a is not in the directory
C17_Witness ==
    \E s \in Sessions :
        /\ pc[s] = "flushed"
        /\ done[s] = <<[req |-> Req("Publish", <<PA, REL>>),
                        resp |-> Error("publish relative path")]>>
        /\ wire[s] = <<Error("publish relative path")>>
        /\ PathsOf(published, 1) = {}
        /\ info[client[s]].published = {}

\* C18: a request that fails on its own is answered with an Error in the
\* response stream and the session goes on: a Publish with a relative path gets
\* an Error and the batch goes on; a batch with a write in it on a ReadOnly
\* session is not the end of the session; and a session whose responses were
\* read is Running again.
ByPeer(s) == ended'[s].why = "error"

C18_RequestErrorsKeepSession ==
    [][\A s \in Sessions :
         /\ (/\ pc[s] = "locked" /\ batch[s] # <<>> /\ batch'[s] = Tail(batch[s])
             /\ Head(batch[s]).op = "Publish"
             /\ InSeq(Head(batch[s]).paths, REL))
            => /\ response'[s][Len(response'[s])].tag = "Error"
               /\ pc'[s] = "locked"
         /\ (/\ pc[s] = "running" /\ pc'[s] # "running" /\ ~ByPeer(s)
             /\ hello[s].kind = "ReadOnly" /\ batch_needs_write_lock[s])
            => pc'[s] = "locked"
         /\ (pc[s] = "flushed" /\ pc'[s] # "flushed") => pc'[s] = "running"
      ]_vars

\* C19: an Unpublish, a Resolve or a List that carries a relative path,
\* executed, is answered with an Error and leaves the directory and the
\* writer's record as they were, and the batch goes on: Unpublish checks its
\* paths as Publish does.
C19_RelativePathsRefused ==
    [][\A s \in Sessions :
         (/\ pc[s] = "locked" /\ batch[s] # <<>> /\ batch'[s] = Tail(batch[s])
          /\ Head(batch[s]).op \in {"Unpublish", "Resolve", "List"}
          /\ InSeq(Head(batch[s]).paths, REL))
         => /\ response'[s][Len(response'[s])].tag = "Error"
            /\ published' = published
            /\ info'[client[s]].published = info[client[s]].published
            /\ pc'[s] = "locked"
      ]_vars

\* ---------------------------------------------------------------- C21
\* the tasks that stops.stop() is to reach: the sessions alive and the scavenger
Tasks == {s \in Sessions : Alive(s)} \cup {0}

\* every task of the server has returned
AllReturned == (\A s \in Sessions : ~Alive(s)) /\ scav # "running"

\* C21: once the Server value is dropped the accept loop leaves its loop and
\* sends the stop of every session alive and of the scavenger, and all of them
\* return: no session goes on taking batches.
C21_ShutdownStopsAll ==
    /\ [][server = "dropped" /\ server' # "dropped"
            => server' = "stopped" /\ Tasks \cap stops \subseteq signalled']_server
    /\ (server = "dropped") ~> (server = "stopped" /\ AllReturned)

\* ---------------------------------------------------------------- C22
\* C22: a scavenger tick changes the directory only at the endpoints of the
\* records it finds expired: an endpoint whose record is not expired, or that
\* has no record, is in the resolve result of every path after the tick if and
\* only if it was before, also of a path that a scavenged writer advertised too.
C22_TickSparesOtherWriters ==
    [][TickRuns =>
          \A b \in Addrs :
             (clients[b] = 0 \/ ~Expired(info[clients[b]], nextTick))
             => \A p \in AllPaths :
                   InSeq(StoreResolve(published, p), b)
                   <=> InSeq(StoreResolve(published', p), b)]_vars

\* two writers advertised PA; the tick scavenged the writer at endpoint 1, whose
\* session is still there, and PA resolves to endpoint 2 alone
C22_Witness ==
    /\ StoreResolve(published, PA) = <<2>>
    /\ clients[1] = 0
    /\ clients[2] # 0
    /\ PA \in info[clients[2]].published
    /\ \E s \in Sessions :
          /\ pc[s] = "running"
          /\ hello[s].kind = "ReadWrite"
          /\ hello[s].write_addr = 1
          /\ client_added[s]
          /\ stopsig[s] = "sent"
          /\ PA \in info[client[s]].published

\* ---------------------------------------------------------------- C23
\* the response the client's task reads for the request at hand
ResponseRead == wire[c_con][1]

\* C23: when the client's task reads the response to a request, published has
\* the paths of a Publish answered Published merged in, the paths of an
\* Unpublish answered Unpublished taken out, and is unchanged otherwise.
C23_PublishedFollowsAcks ==
    [][c_pc = "await" /\ c_pc' = "wait" =>
          c_published' =
             IF ResponseRead = Published /\ c_msg.op = "Publish"
             THEN c_published \cup Range(c_msg.paths)
             ELSE IF ResponseRead = Unpublished /\ c_msg.op = "Unpublish"
             THEN c_published \ Range(c_msg.paths)
             ELSE c_published]_vars

\* ---------------------------------------------------------------- C24
\* the scavenger's tick treats the record registered for endpoint a as expired
\* or not, as the claim has it
TickOf(a) ==
    LET r == clients[a] IN
    IF r # 0 /\ nextTick - info[r].last > info[r].ttl
    THEN /\ clients'[a] = 0
         /\ \A o \in Sessions : Alive(o) /\ info[r].stop = o => stopsig'[o] = "sent"
         /\ \A p \in info[r].published : ~InSeq(StoreResolve(published', p), a)
    ELSE /\ clients'[a] = r
         /\ r # 0 => info'[r] = info[r]

\* C24: a tick at instant now removes from the registry exactly the records
\* with now - last_seen > ttl, sends the stop of each one it removes and takes
\* its paths out of the directory, in the one step it holds the lock for; every
\* other record is left as it was.
C24_TickRemovesExactlyExpired ==
    [][TickRuns => \A a \in Addrs : TickOf(a)]_vars

\* ---------------------------------------------------------------- C25
\* the InBatch items among the last results, back to the last EndBatch
RECURSIVE Accumulated(_)
Accumulated(out) ==
    IF out = <<>> \/ out[Len(out)].kind = "EndBatch" THEN 0
    ELSE Accumulated(SubSeq(out, 1, Len(out) - 1))
         + (IF out[Len(out)].kind = "InBatch" THEN 1 ELSE 0)

\* C25: a Batched made with max emits EndBatch only when it has emitted an
\* InBatch since the last EndBatch, emits at most max InBatch between two
\* EndBatch, and emits EndBatch at once when it polls its inner stream and
\* finds it not ready or ended with an item accumulated.
C25_BatchesAreBounded ==
    /\ [](\A i \in 1..Len(b_out) :
             /\ b_out[i].kind = "EndBatch"
                => Accumulated(SubSeq(b_out, 1, i - 1)) >= 1
             /\ Accumulated(SubSeq(b_out, 1, i)) <= b_max)
    /\ [][\A inner \in {"none", "pending"} :
             (/\ PollNext(inner)
              /\ ~b_ended
              /\ Accumulated(b_out) \in 1..(b_max - 1))
             => b_out'[Len(b_out')] = EndBatch]_vars

\* a batch closed because it was full, and a later one closed because the
\* inner stream was not ready
C25_Witness ==
    \E i, j \in 1..Len(b_out) :
       /\ i < j
       /\ b_out[i] = EndBatch
       /\ Accumulated(SubSeq(b_out, 1, i - 1)) = b_max
       /\ b_out[j] = EndBatch
       /\ Accumulated(SubSeq(b_out, 1, j - 1)) < b_max
       /\ b_inner = "open"

\* ---------------------------------------------------------------- C26
\* the requests of the batch session s is executing, those done and those left
BatchAtHand(s) == [i \in 1..Len(done[s]) |-> done[s][i].req] \o batch[s]

HasWrite(b) == \E i \in 1..Len(b) : b[i].op \in {"Publish", "Unpublish"}

\* C26: a batch with a Publish or an Unpublish is executed with the context
\* lock held exclusively and a batch with neither with the lock shared; no
\* request is answered by the unreachable!() arm; batch_needs_write_lock is
\* false whenever a batch starts.
C26_LockFitsBatch ==
    \A s \in Sessions :
       /\ pc[s] = "locked" =>
             IF HasWrite(BatchAtHand(s))
             THEN batch_needs_write_lock[s] /\ Holders = {s}
             ELSE /\ ~batch_needs_write_lock[s]
                  /\ \A o \in Holders : ~batch_needs_write_lock[o]
       /\ \A i \in 1..Len(response[s]) : response[s][i] # Unreachable
       /\ (pc[s] \in {"hello", "running"} /\ batch[s] = <<>>)
             => ~batch_needs_write_lock[s]

\* a session that registered with a write batch executes a batch of reads next
\* to another session's batch of reads
C26_Witness ==
    \E s, o \in Sessions :
       /\ s # o
       /\ pc[s] = "locked" /\ pc[o] = "locked"
       /\ hello[s].kind = "ReadWrite"
       /\ server_hello[s] = <<TRUE>>
       /\ client_added[s]
       /\ done[s] # <<>>
       /\ ~HasWrite(BatchAtHand(s))

\* ---------------------------------------------------------------- C27
\* task t holds a lock
HoldsMutex(t) == \E r \in RecIds : l_mutex[r] = t
HoldsLock(t) == l_outer[t] # "none" \/ HoldsMutex(t)

\* task t waits for a lock that task u holds
WaitsFor(t, u) ==
    /\ t # u
    /\ l_prog[t] # <<>>
    /\ LET o == Head(l_prog[t]) IN
       \/ o.op = "read" /\ l_outer[u] = "write"
       \/ o.op = "write" /\ l_outer[u] # "none"
       \/ o.op = "lock" /\ l_mutex[o.rec] = u

\* task t waits, and every task it waits for waits too, and so on: it is stuck
RECURSIVE Stuck(_, _)
Stuck(t, seen) ==
    /\ \E u \in LockTasks : WaitsFor(t, u)
    /\ \A u \in LockTasks :
          WaitsFor(t, u) => u \in seen \/ Stuck(u, seen \cup {u})

\* C27: a task takes the Mutex of a record only while it holds the context
\* lock and takes the context lock only while it holds no Mutex; it holds no
\* lock when it awaits the socket; and no task waits for a lock for ever
\* because of tasks that wait in turn.
C27_LockOrder ==
    \A t \in LockTasks :
       /\ HoldsMutex(t) => l_outer[t] # "none"
       /\ l_prog[t] # <<>> =>
             LET o == Head(l_prog[t]) IN
             /\ o.op = "lock" => l_outer[t] # "none"
             /\ o.op \in {"read", "write"} => ~HoldsLock(t)
             /\ o.op = "await" => ~HoldsLock(t)
       /\ l_prog[t] = <<>> => ~HoldsLock(t)
       /\ ~Stuck(t, {t})

\* the scavenger holds the exclusive lock and waits for the Mutex of a record
\* that a session has yet to take, while the session and the accept loop wait
\* for the context lock
C27_Witness ==
    /\ l_outer[0] = "write"
    /\ \E s \in Sessions, r \in RecIds :
          /\ WaitsFor(s, 0)
          /\ Head(l_prog[s]).op = "read"
          /\ Op("lock", r) \in Range(l_prog[s])
          /\ Op("lock", r) \in Range(l_prog[0])
    /\ WaitsFor(AcceptTask, 0)

\* ---------------------------------------------------------------- C28
\* C28: every batch a session executes, of reads or with writes, leaves the
\* last_seen of the session's record at the time of the batch, and a tick at
\* instant now removes a record only if now - last_seen exceeds its ttl: a
\* registered writer whose batches, whatever they hold, are less than its ttl
\* apart is not scavenged.
C28_EveryBatchRefreshes ==
    /\ [][\A s \in Sessions :
             pc[s] = "running" /\ pc'[s] = "writing"
             => info'[client[s]].last = clock]_vars
    /\ [][\A a \in Addrs :
             TickRuns /\ clients[a] # 0 /\ clients'[a] # clients[a]
             => nextTick - info[clients[a]].last > info[clients[a]].ttl]_vars

\* a writer registered with a ttl of 5 has had a Resolve executed at clock 10
\* and is still registered after the tick of instant 10, which scavenged the
\* other writer
C28_Witness ==
    \E s \in Sessions, a \in Addrs :
       /\ pc[s] = "flushed"
       /\ done[s][1].req.op = "Resolve"
       /\ hello[s].kind = "ReadWrite"
       /\ clients[hello[s].write_addr] = client[s]
       /\ info[client[s]].last = ScavengerPeriod
       /\ info[client[s]].ttl < ScavengerPeriod
       /\ nextTick = 2 * ScavengerPeriod
       /\ a # hello[s].write_addr
       /\ clients[a] = 0
       /\ \E o \in Sessions : hello[o].write_addr = a /\ stopsig[o] = "sent"

\* ---------------------------------------------------------------- C29
\* the sessions past their hello that hold record r and whose stop has been
\* neither sent nor dropped
Attached(r) ==
    {s \in Sessions : /\ pc[s] \in {"running", "writing", "flushed"}
                      /\ client[s] = r
                      /\ stopsig[s] = "none"}

\* C29: a ReadWrite hello that finds a record for its write_addr stores the new
\* session's stop in it, and the session whose stop was there is signalled; a
\* session that is signalled returns; so a record in the registry has at most
\* one session attached that has not been signalled.
C29_OneSessionPerRecord ==
    /\ [][\A s \in Sessions :
             (pc[s] = "hello" /\ pc'[s] = "running" /\ client_added'[s])
             => /\ info'[client'[s]].stop = s
                /\ \A o \in Sessions \ {s} :
                      Alive(o) /\ info[client'[s]].stop = o => stopsig'[o] # "none"]_vars
    /\ [](\A a \in Addrs : clients[a] # 0 => Cardinality(Attached(clients[a])) <= 1)
    /\ \A s \in Sessions : (stopsig[s] # "none") ~> (stopsig[s] = "none")

\* the second session said hello for the write_addr of the first one's record
\* and is the one session attached to it; the first session has returned
C29_Witness ==
    /\ server = "up" /\ ~poisoned
    /\ pc[1] = "closed"
    /\ pc[2] = "running"
    /\ server_hello[2] = <<FALSE>>
    /\ clients[1] = client[2]
    /\ info[client[2]].stop = 2
    /\ Attached(client[2]) = {2}

\* ---------------------------------------------------------------- C30
\* C30: the client's task sets out to connect from its loop, on a heartbeat as
\* on a request, only when it holds no connection: a heartbeat that finds a
\* connection keeps it and opens no other.
C30_HeartbeatKeepsConnection ==
    [][c_pc = "wait" /\ c_pc' = "connect" => c_con = 0]_vars

\* C31: within one call of connect the first attempt is made without a sleep,
\* and the attempt that follows the N-th consecutive failure, whatever stage
\* failed, is made after a sleep of exactly N seconds: the sleeps are 1, 2,
\* 3, ...; every call starts again with no sleep.
C31_BackoffIsLinear ==
    /\ \A i \in 1..Len(k_log) : k_log[i] = i - 1
    /\ k_pc \in ConnectStages \cup {"done"} => Len(k_log) = Len(k_fails) + 1
    /\ k_pc \in {"top", "sleep"} => Len(k_log) = Len(k_fails)
    /\ k_pc = "sleep" => Len(k_fails) > 0

\* a call of connect whose third attempt, after two failures at different
\* stages, is under way
C31_Witness ==
    /\ k_pc \in ConnectStages
    /\ Len(k_fails) = 2
    /\ k_log = <<0, 1, 2>>
    /\ k_fails[1] # k_fails[2]

\* C32: whenever a session has executed every request it has been sent, the
\* directory, the registry and the session's record are what they would be
\* had each request been executed as a batch of its own, in arrival order,
\* however the requests were cut into batches.
C32_CutsDoNotMatter ==
    /\ \A s \in Sessions :
          Alive(s) /\ pc[s] # "hello" /\ batch[s] = <<>> =>
             /\ q_ref.open
             /\ published = q_ref.pub
             /\ clients = q_ref.cl
             /\ info[client[s]] = q_ref.ci
             /\ client_added[s] = q_ref.added
    /\ (\A s \in Sessions : ~Alive(s)) =>
          published = q_ref.pub /\ clients = q_ref.cl

\* a batch of two requests, the first a Publish that the second undoes in
\* part, was executed on a writer's session
C32_Witness ==
    \E s \in Sessions :
       /\ pc[s] = "writing"
       /\ Len(done[s]) = 2
       /\ done[s][1].req = Req("Publish", <<PB, PA>>)
       /\ done[s][2].req = Req("Unpublish", <<PA>>)
       /\ published = q_ref.pub
       /\ PathsOf(published, hello[s].write_addr) = {PB}

\* C33: two sessions that said ReadWrite hello for the same write_addr while
\* the registry held no record for it, and have each executed a write batch,
\* hold the one record registered for that write_addr; and an insertion into
\* the registry never replaces a record of which a path is still in the
\* directory.
C33_SameAddrSameRecord ==
    /\ [](\A s, o \in Sessions :
            /\ pc[s] \in {"running", "writing", "flushed"}
            /\ pc[o] \in {"running", "writing", "flushed"}
            /\ hello[s].kind = "ReadWrite"
            /\ hello[o] = hello[s]
            /\ server_hello[s] = <<TRUE>> /\ server_hello[o] = <<TRUE>>
            /\ client_added[s] /\ client_added[o]
            /\ stopsig[s] = "none" /\ stopsig[o] = "none"
            => client[s] = client[o] /\ clients[hello[s].write_addr] = client[s])
    /\ [][\A a \in Addrs :
             clients[a] # 0 /\ clients'[a] \notin {0, clients[a]} =>
                \A p \in info[clients[a]].published : ~InSeq(published'[p], a)]_vars

\* C34: once the scavenger has timed out a session's record and removed it
\* from the registry, a batch that the session executes afterwards adds no
\* path to the directory.
C34_NoBatchAfterScavenge ==
    [][\A s \in Sessions :
          /\ Executes(s)
          /\ stopsig[s] = "sent"
          /\ hello[s].kind = "ReadWrite"
          /\ clients[hello[s].write_addr] # client[s]
          => \A p \in AllPaths : Range(published'[p]) \subseteq Range(published[p])]_vars

\* C35: when the scavenger handles a tick, the tick's instant is not earlier
\* than the last of any registered record, so now - cl.last is defined for
\* every record; the scavenger never panics and the context lock is never
\* poisoned.
C35_TickNotBeforeLastSeen ==
    /\ [](scav = "running" /\ ~poisoned)
    /\ [][TickRuns => \A a \in Registered : nextTick >= info[clients[a]].last]_vars

\* C36: when a session's task returns while it is gathering a batch (a line
\* does not decode, the stream fails, or a stop arrives), the requests
\* gathered are not executed: the directory, the registry and every
\* registered record are as the completed batches left them.
C36_UnfinishedBatchDropped ==
    [][\A s \in Sessions :
          pc[s] = "running" /\ batch[s] # <<>> /\ pc'[s] = "closed" =>
             /\ published' = published
             /\ clients' = clients
             /\ \A a \in Registered : info'[clients[a]] = info[clients[a]]]_vars

\* a writer whose first batch published /a and /b ended while the batch it
\* was gathering held Unpublish([/a]) and one more request: /a is still
\* advertised
C36_Witness ==
    \E s \in Sessions :
       /\ pc[s] = "closed"
       /\ Len(q_lost) = 2
       /\ q_lost[1] = Req("Unpublish", <<PA>>)
       /\ \E a \in Registered : PA \in info[clients[a]].published
       /\ \E a \in Addrs : InSeq(published[PA], a)

\* the endpoints that st maps path p to, in order, but for endpoint a
Others(st, p, a) == SelectSeq(st[p], LAMBDA e : e # a)

\* C37: a batch executed on a session changes, for every path, at most the
\* presence of the endpoint of the session's own record: the endpoints of the
\* other writers, and their order, are what they were.
C37_WritesTouchOwnEndpoint ==
    [][\A s \in Sessions :
          Executes(s) =>
             \A p \in AllPaths :
                Others(published', p, info[client[s]].addr)
                   = Others(published, p, info[client[s]].addr)]_vars

\* a writer has executed Unpublish([/a]) while /a was advertised by another
\* writer only, and /a is still advertised by that writer
C37_Witness ==
    \E s \in Sessions :
       /\ pc[s] = "writing"
       /\ Len(done[s]) = 1
       /\ done[s][1].req = Req("Unpublish", <<PA>>)
       /\ done[s][1].resp = Unpublished
       /\ published[PA] # <<>>
       /\ ~InSeq(published[PA], info[client[s]].addr)

\* C38: the client's task holds at most one connection at any time, the one
\* in con or the one connect is establishing, and takes the next request off
\* the queue only when it has none at hand, the one before having been
\* answered.
C38_OneConnectionOneRequest ==
    /\ [](c_con = 0 \/ c_tcp = 0)
    /\ [][c_calls' # c_calls => c_msg = NoMsg /\ c_pc = "wait"]_vars

\* the InBatch results among out, in order
ItemsOf(out) == SelectSeq(out, LAMBDA o : o.kind = "InBatch")

\* C39: the InBatch results of a Batched are the items its inner stream has
\* yielded, each once and in the inner stream's order; the end of the stream
\* is reported only with no item left accumulated (the last items are closed
\* by an EndBatch first) and is followed by nothing else; and once the inner
\* stream has ended the Batched is ended and a poll returns the end of the
\* stream without polling the inner stream.
C39_BatchedKeepsItems ==
    /\ [](ItemsOf(b_out) = [i \in 1..b_given |-> InBatch(i)])
    /\ [](\A i \in 1..Len(b_out) :
             b_out[i] = PollNone =>
                /\ Accumulated(SubSeq(b_out, 1, i - 1)) = 0
                /\ \A j \in i..Len(b_out) : b_out[j] = PollNone)
    /\ [](b_inner = "ended" =>
             /\ b_ended
             /\ \A inner \in InnerPolls :
                   BatchedPollNext(b_ended, b_current, b_max, inner, b_given + 1)
                      = [ended |-> TRUE, current |-> b_current, polled |-> FALSE,
                         out |-> PollNone])

\* the inner stream ended with an item accumulated in a batch that was not
\* full: the item was followed by EndBatch, and the two polls after it
\* returned the end of the stream
C39_Witness ==
    \E i \in 2..Len(b_out) :
       /\ i + 2 <= Len(b_out)
       /\ b_out[i - 1].kind = "InBatch"
       /\ Accumulated(SubSeq(b_out, 1, i - 1)) < b_max
       /\ b_out[i] = EndBatch
       /\ b_out[i + 1] = PollNone
       /\ b_out[i + 2] = PollNone
       /\ b_inner = "ended"

====
